---------------------------- MODULE Spec2Model ----------------------------
(***************************************************************************)
(* The request / poll / fetch state machine of the report connectors:      *)
(*   Amazon Ads   connectors/src/media/amazon_ads/ecommerce_amzon_ads_ecs  *)
(*   AMC          amc/chc_ecommerce_usa_amazon_amc_ecs                     *)
(*   Instacart    connectors/src/ecomm/instacart/chc_ecommerce_instacart   *)
(*   AVC          connectors/src/ecomm/avc/avc_reports_api                 *)
(* One behaviour is one process_report_config / process_report /           *)
(* get_report_from_avc call: one job is created, polled and materialised.  *)
(***************************************************************************)
EXTENDS Naturals, Sequences, FiniteSets, TLC

VARIABLES
    vendor,      \* which connector runs: "ads", "amc", "instacart", "avc"
    date,        \* the start date handed to process_report_config
    pc,          \* position of the connector in its call
    exc,         \* the exception that left the call ("none" while running)
    raised_at,   \* the step that raised it ("none" while running)
    report_id,   \* the job id returned by the creation call
    posts,       \* report-creation POSTs sent
    polls,       \* status GETs sent
    sleeps,      \* sleeps taken between status GETs
    retries,     \* the pollers' local variable `retries`
    quota,       \* QuotaExceeded answers received by api_call_with_delay
    hist,        \* the first HistLen statuses the status endpoint answered
    resp,        \* the last answer of the status endpoint
    ret,         \* what fetch_report_url returned
    idx,         \* URLs of ret already handed to fetch_report_data
    mat_calls,   \* calls of fetch_report_data
    downloads,   \* artifact GETs sent
    uploads,     \* report artifacts written to the destination key
    dest,        \* content of the destination key
    tmp,         \* temporary files on disk
    resolved,    \* AMC: the last answer of the downloadUrls endpoint
    wf_status,   \* AMC: self.wf_status
    wf_log,      \* AMC: rows of workflow_status.csv
    log_uploads, \* AMC: uploads of the failure log
    \* main of Amazon Ads and of AMC: the loop over the date ranges
    run_vendor,  \* whose main runs: "ads" or "amc" ("none": no run)
    date_list,   \* the date ranges of the run, in order
    run_i,       \* date ranges whose process_report_config call has ended
    run_pc,      \* "loop", "done" (main returned) or "raised"
    run_exc,     \* the exception that left main ("none" otherwise)
    run_ends,    \* how the job of each date range processed so far ended
    run_reports, \* date ranges whose report key has been written
    run_log,     \* rows of workflow_status.csv on the local disk
    run_sink_log,\* rows of the failure log at its key in the bucket
    run_flushes, \* uploads of the failure log during the run
    run_template,\* the destination path template of the configuration
    run_store,   \* report objects of the bucket: key -> the date range written
    \* fetch_report_data, step by step, called twice in a row
    f_calls,     \* calls of fetch_report_data started
    f_args,      \* the arguments of the call: url, report_type, template, date
    f_pc,        \* "idle", "check", "step" (f_k-th step next), "returned", "raised"
    f_k,         \* steps of fetch_steps completed in this call
    f_exc,       \* the exception that left the call
    f_body,      \* response.content of the download GET
    f_csv,       \* content of the file csv_filename names
    f_files,     \* temporary files on the local disk
    f_created,   \* temporary files this call created
    f_gets,      \* download GETs of this call
    f_puts,      \* objects this call wrote to the bucket
    f_store,     \* the bucket: key -> content
    f_before,    \* the bucket when this call started
    f_first,     \* the first call: its arguments, body and result
    \* move_previous_csv_to_processed_folder
    r_pc,        \* "idle", "loop", "returned" or "raised"
    r_dates,     \* the argument date_list
    r_list,      \* file_list
    r_n,         \* files of file_list the loop is done with
    r_k,         \* steps done for the file the loop is at
    r_df,        \* the frame read from the file the loop is at
    r_exc,       \* the exception that left the call
    r_bucket,    \* the bucket: key -> content
    r_start,     \* the bucket when the call started
    \* get_report_from_avc against a vendor that answers as long as it is asked
    a_pc,        \* "idle", "create", "status", "document", "returned", "raised"
    a_at,        \* the step an exception was raised at
    a_exc,       \* the exception that left the call
    a_throttled, \* the vendor answers the next request with QuotaExceeded
    a_job,       \* the processingStatus the vendor reports for the report
    a_attempts,  \* requests of the api_call_with_delay call in progress
    a_sleep,     \* seconds slept by the last step
    a_reply,     \* what call_aws_rest_api returned last
    a_req,       \* the last request sent
    a_status,    \* status, as last assigned
    a_polls,     \* passes of the while loop over status
    a_tick,      \* flips with every request sent
    \* one call of generate_intervals or make_api_calls_daily
    d_pc,        \* "idle", "args", "intervals" or "daily"
    d_start,     \* report_start_date, as a day number
    d_end,       \* report_end_date, as a day number
    d_n,         \* interval_days
    d_out,       \* the list the function returned
    \* the loop over the download URLs of one succeeded job
    u_vendor,    \* "ads", "instacart" or "walmart"
    u_urls,      \* report_urls / download_report_urls
    u_template,  \* the destination path template of the connector
    u_date,      \* end_date_obj / report_date
    u_idx,       \* URLs the for loop is done with
    u_pc,        \* "idle", "loop", "returned" or "raised"
    u_exc,       \* the exception that ended the loop ("none": none did)
    u_calls,     \* the arguments of the fetch_report_data calls, in order
    u_puts,      \* the uploads done: key and URL, in order
    u_store,     \* the bucket: key -> the URL whose content it holds
    \* the discovery of the latest date a vendor central report exists for
    v_pc,        \* "idle", "request", "returned" or "raised"
    v_table,     \* self.table_name
    v_assume,    \* lookback_days_not_available_assumption['DAY']
    v_end,       \* end_date, the candidate (a day number)
    v_tried,     \* the requests made: date asked for and the answer
    v_exc,       \* the exception that left the function ("none": none did)
    v_ret,       \* the end_date returned ("none": nothing returned)
    \* raw_dataframe_builder for sp_promotion_performance and sp_coupon_performance
    p_pc,        \* "idle", "generate", "rotation", "returned" or "raised"
    p_end,       \* end_date: datetime.now() as '%Y-%m-%dT%H:%M:%SZ'
    p_df,        \* df ("none" data: generate_raw_dataframe gave None or was not called)
    p_exc,       \* the exception that left the branch ("none": none did)
    \* the date-range run of the Walmart main
    w_pc,        \* "idle", "args", "loop", "returned" or "raised"
    w_args,      \* --date, --start_date, --end_date ("None": not given)
    w_start,     \* start_date
    w_end,       \* end_date
    w_cur,       \* current_date
    w_calls,     \* the process_report calls: date and the step that failed
    w_exc,       \* the exception that left main ("none": none did)
    \* raw_dataframe_builder for the general vendor central tables (DAY)
    b_pc,        \* "idle", "list", "loop", "returned" or "raised"
    b_end,       \* end_date, the date the discovery returned (a day number)
    b_lookback,  \* self.lookback_period
    b_report,    \* report_response, the frame of the discovery (kind "none": None)
    b_list,      \* date_list, the date ranges to extract
    b_i,         \* date ranges the for loop is done with
    b_df,        \* df of the current date range
    b_requests,  \* the date ranges generate_raw_dataframe was called with
    b_exc,       \* the exception that left the branch ("none": none did)
    b_store,     \* the bucket
    b_store0     \* the bucket before the run

\* one process_report_config / process_report / get_report_from_avc call
job_vars == <<vendor, date, pc, exc, raised_at, report_id, posts, polls, sleeps,
              retries, quota, hist, resp, ret, idx, mat_calls, downloads,
              uploads, dest, tmp, resolved, wf_status, wf_log, log_uploads>>

\* one run of main
run_vars == <<run_vendor, date_list, run_i, run_pc, run_exc, run_ends,
              run_reports, run_log, run_sink_log, run_flushes, run_template,
              run_store>>

\* calls of fetch_report_data
fetch_vars == <<f_calls, f_args, f_pc, f_k, f_exc, f_body, f_csv, f_files,
                f_created, f_gets, f_puts, f_store, f_before, f_first>>

\* one call of move_previous_csv_to_processed_folder
rotation_vars == <<r_pc, r_dates, r_list, r_n, r_k, r_df, r_exc, r_bucket,
                   r_start>>

\* one call of get_report_from_avc and the vendor it talks to
avc_vars == <<a_pc, a_at, a_exc, a_throttled, a_job, a_attempts, a_sleep,
              a_reply, a_req, a_status, a_polls, a_tick>>

\* one call of generate_intervals or make_api_calls_daily
dates_vars == <<d_pc, d_start, d_end, d_n, d_out>>

\* the loop over the download URLs of one succeeded job
loop_vars == <<u_vendor, u_urls, u_template, u_date, u_idx, u_pc, u_exc,
               u_calls, u_puts, u_store>>

\* the discovery of the latest date a vendor central report exists for
discovery_vars == <<v_pc, v_table, v_assume, v_end, v_tried, v_exc, v_ret>>

\* raw_dataframe_builder for sp_promotion_performance and sp_coupon_performance
promo_vars == <<p_pc, p_end, p_df, p_exc>>

\* the date-range run of the Walmart main
walmart_vars == <<w_pc, w_args, w_start, w_end, w_cur, w_calls, w_exc>>

\* raw_dataframe_builder for the general vendor central tables (DAY)
builder_vars == <<b_pc, b_end, b_lookback, b_report, b_list, b_i, b_df,
                  b_requests, b_exc, b_store, b_store0>>

vars == <<job_vars, run_vars, fetch_vars, rotation_vars, avc_vars,
          dates_vars, loop_vars, discovery_vars, promo_vars, walmart_vars,
          builder_vars>>

\* what the steps of one component leave alone
outside_job == <<run_vars, fetch_vars, rotation_vars, avc_vars, dates_vars,
                 loop_vars, discovery_vars, promo_vars, walmart_vars,
                 builder_vars>>
outside_run == <<job_vars, fetch_vars, rotation_vars, avc_vars, dates_vars,
                 loop_vars, discovery_vars, promo_vars, walmart_vars,
                 builder_vars>>
outside_fetch == <<job_vars, run_vars, rotation_vars, avc_vars, dates_vars,
                   loop_vars, discovery_vars, promo_vars, walmart_vars,
                   builder_vars>>
outside_rotation == <<job_vars, run_vars, fetch_vars, avc_vars, dates_vars,
                      loop_vars, discovery_vars, promo_vars, walmart_vars,
                      builder_vars>>
outside_avc == <<job_vars, run_vars, fetch_vars, rotation_vars, dates_vars,
                 loop_vars, discovery_vars, promo_vars, walmart_vars,
                 builder_vars>>
outside_dates == <<job_vars, run_vars, fetch_vars, rotation_vars, avc_vars,
                   loop_vars, discovery_vars, promo_vars, walmart_vars,
                   builder_vars>>
outside_loop == <<job_vars, run_vars, fetch_vars, rotation_vars, avc_vars,
                  dates_vars, discovery_vars, promo_vars, walmart_vars,
                  builder_vars>>
outside_discovery == <<job_vars, run_vars, fetch_vars, rotation_vars,
                       avc_vars, dates_vars, loop_vars, promo_vars,
                       walmart_vars, builder_vars>>
outside_promo == <<job_vars, run_vars, fetch_vars, rotation_vars, avc_vars,
                   dates_vars, loop_vars, discovery_vars, walmart_vars,
                   builder_vars>>
outside_walmart == <<job_vars, run_vars, fetch_vars, rotation_vars, avc_vars,
                     dates_vars, loop_vars, discovery_vars, promo_vars,
                     builder_vars>>
outside_builder == <<job_vars, run_vars, fetch_vars, rotation_vars, avc_vars,
                     dates_vars, loop_vars, discovery_vars, promo_vars,
                     walmart_vars>>

-----------------------------------------------------------------------------
(* Bounds of the model.                                                    *)

\* statuses of one job that are remembered in hist
HistLen == 3
\* URLs a success response may list
MaxUrls == 2
\* dates a request may be for
MaxDate == 2
\* QuotaExceeded answers the vendor gives to one AVC call sequence
MaxQuota == 2
\* status GETs of one AVC job (the AVC poll has no budget of its own)
MaxAvcPolls == 4
\* date ranges of one run of main
MaxRanges == 3
\* the last day the date-list functions are called with (days are numbered
\* from 1)
MaxDay == 6
\* the largest interval_days generate_intervals is called with
MaxInterval == 3

\* requests the discovery of the latest available date is followed for
MaxBack == 3

\* the last day --date, --start_date and --end_date of the Walmart main take
MaxWDay == 3

\* the longest lookback_period of a vendor central run
MaxLookback == 3
\* requests of one api_call_with_delay call, and passes of the AVC status
\* loop, that are counted (neither loop has a bound of its own)
MaxAttempts == 3

-----------------------------------------------------------------------------
(* Values.                                                                 *)

Vendors == {"ads", "amc", "instacart", "avc"}
Pollers == {"ads", "amc", "instacart"}

\* a response without a status field: response_json.get('status') is None
NoStatus == "None"

\* statuses a vendor reports while the job is still running
InFlight == {"IN_QUEUE", "IN_PROGRESS", NoStatus}

\* statuses a vendor reports once the job has ended
Final == {"COMPLETED", "SUCCEEDED", "completed", "DONE",
          "FAILURE", "FAILED", "REJECTED", "CANCELLED", "FATAL"}

Vocabulary == InFlight \cup Final

\* download URLs: the path's extension is what fetch_report_data looks at
Urls == {"", "U.gz", "V.csv", "X.txt"}

UrlLists == UNION {[1..n -> Urls \ {""}] : n \in 0..MaxUrls}

\* the value of the 'url' / 's3_location' field of a status response
Field(t, s, l) == [t |-> t, s |-> s, l |-> l]
Missing == Field("missing", "", <<>>)
Null == Field("null", "", <<>>)
UrlFields == {Missing, Null}
             \cup {Field("str", s, <<>>) : s \in Urls}
             \cup {Field("list", "", l) : l \in UrlLists}

NoResp == [http |-> "none", status |-> NoStatus, url |-> Missing]
HttpError == [http |-> "error", status |-> NoStatus, url |-> Missing]
Answer(s, f) == [http |-> "ok", status |-> s, url |-> f]

NoReturn == [kind |-> "none", urls |-> <<>>]
NoResolve == [kind |-> "none", urls |-> <<>>]
NoWf == [workflowID |-> "none", date |-> 0, report_type |-> "none", status |-> "none"]

-----------------------------------------------------------------------------
(* The pollers' constants and pure parts.                                  *)

max_retries_ads == 15
max_retries_amc == 10
max_retries_instacart == 15

\* a loop that tests retries <= max_retries
max_retries_off_by_one(v) ==
    CASE v = "ads" -> max_retries_ads + 1
      [] v = "amc" -> max_retries_amc + 1
      [] v = "instacart" -> max_retries_instacart + 1

max_retries(v) ==
    CASE v = "ads" -> max_retries_ads
      [] v = "amc" -> max_retries_amc
      [] v = "instacart" -> max_retries_instacart

\* What one status answer leads to: "success", "raise" (failure, raise
\* policy), "record" (failure, record policy) or "again" (fall through to
\* retries += 1 and the sleep).
ads_branch(s) ==
    IF s = "COMPLETED" THEN "success"
    ELSE IF s = "FAILURE" THEN "raise"
    ELSE "again"

\* a poller that forgets REJECTED
amc_branch_no_rejected(s) ==
    IF s = "SUCCEEDED" THEN "success"
    ELSE IF s = "FAILURE" THEN "record"
    ELSE "again"

amc_branch(s) ==
    IF s = "SUCCEEDED" THEN "success"
    ELSE IF s = "FAILURE" \/ s = "REJECTED" THEN "record"
    ELSE "again"

\* a poller without its failure branch
instacart_branch_no_failure(s) ==
    IF s = "completed" THEN "success" ELSE "again"

instacart_branch(s) ==
    IF s = "completed" THEN "success"
    ELSE IF s = "FAILURE" THEN "raise"
    ELSE "again"

status_branch(v, s) ==
    CASE v = "ads" -> ads_branch(s)
      [] v = "amc" -> amc_branch(s)
      [] v = "instacart" -> instacart_branch(s)

\* The URL the AMC poller builds from the job id before the loop; it is the
\* downloadUrls endpoint of the job, not a field of the status response.
amc_download_urls_endpoint(id) ==
    IF id = "R1" THEN "amc/workflowExecutions/R1/downloadUrls"
    ELSE "amc/workflowExecutions/none/downloadUrls"

\* a dispatch that has no branch for a single string
url_list_no_str(f) ==
    LET got == IF f.t = "missing" THEN Field("list", "", <<>>) ELSE f
    IN  IF got.t # "list" THEN [exc |-> "TypeError", urls |-> <<>>]
        ELSE IF got.l = <<>> THEN [exc |-> "Exception", urls |-> <<>>]
        ELSE [exc |-> "none", urls |-> got.l]

\* response_json.get('url', []) followed by the isinstance dispatch and the
\* emptiness check.
url_list(f) ==
    LET got == IF f.t = "missing" THEN Field("list", "", <<>>) ELSE f
    IN  IF got.t = "str" THEN [exc |-> "none", urls |-> <<got.s>>]
        ELSE IF got.t # "list" THEN [exc |-> "TypeError", urls |-> <<>>]
        ELSE IF got.l = <<>> THEN [exc |-> "Exception", urls |-> <<>>]
        ELSE [exc |-> "none", urls |-> got.l]

\* AMC: report_urls = url, a non-empty string, wrapped in a list.
amc_url_list(id) == [exc |-> "none", urls |-> <<amc_download_urls_endpoint(id)>>]

\* a marker the caller does not test for
amc_marker_none == <<"None">>

\* The failure marker of the AMC poller.
amc_marker == <<"">>

\* The answers the status endpoint can give after `prev`: a job that has
\* ended keeps its status (and its response); any GET can fail at HTTP level.
StatusAnswers(prev) ==
    IF prev.http = "ok" /\ prev.status \in Final
    THEN {prev, HttpError}
    ELSE {HttpError}
         \cup {Answer(s, Missing) : s \in Vocabulary}
         \cup {Answer(s, f) : s \in {"COMPLETED", "SUCCEEDED", "completed"},
                              f \in UrlFields}

Remember(h, s) == IF Len(h) < HistLen THEN Append(h, s) ELSE h

\* a loop body that catches the HTTP error of the status GET and goes on
poll_outcome_retry_http(v, r, id) ==
    IF r.http = "error"
    THEN [next |-> "again", exc |-> "none", urls |-> <<>>]
    ELSE LET b == status_branch(v, r.status)
             u == IF v = "amc" THEN amc_url_list(id) ELSE url_list(r.url)
         IN  CASE b = "success" /\ u.exc = "none" ->
                    [next |-> "return", exc |-> "none", urls |-> u.urls]
               [] b = "success" /\ u.exc # "none" ->
                    [next |-> "raise", exc |-> u.exc, urls |-> <<>>]
               [] b = "raise" ->
                    [next |-> "raise", exc |-> "Exception", urls |-> <<>>]
               [] b = "record" ->
                    [next |-> "marker", exc |-> "none", urls |-> amc_marker]
               [] OTHER ->
                    [next |-> "again", exc |-> "none", urls |-> <<>>]

\* a loop body that logs the failure status and falls through to the sleep
poll_outcome_failure_falls_through(v, r, id) ==
    IF r.http = "error"
    THEN [next |-> "raise", exc |-> "HTTPError", urls |-> <<>>]
    ELSE LET b == status_branch(v, r.status)
             u == IF v = "amc" THEN amc_url_list(id) ELSE url_list(r.url)
         IN  CASE b = "success" /\ u.exc = "none" ->
                    [next |-> "return", exc |-> "none", urls |-> u.urls]
               [] b = "success" /\ u.exc # "none" ->
                    [next |-> "raise", exc |-> u.exc, urls |-> <<>>]
               [] b = "record" ->
                    [next |-> "marker", exc |-> "none", urls |-> amc_marker]
               [] OTHER ->
                    [next |-> "again", exc |-> "none", urls |-> <<>>]

\* One pass of the loop body of fetch_report_url on answer r: what the
\* function does next ("again", "return", "marker" or "raise").
poll_outcome(v, r, id) ==
    IF r.http = "error"
    THEN [next |-> "raise", exc |-> "HTTPError", urls |-> <<>>]
    ELSE LET b == status_branch(v, r.status)
             u == IF v = "amc" THEN amc_url_list(id) ELSE url_list(r.url)
         IN  CASE b = "success" /\ u.exc = "none" ->
                    [next |-> "return", exc |-> "none", urls |-> u.urls]
               [] b = "success" /\ u.exc # "none" ->
                    [next |-> "raise", exc |-> u.exc, urls |-> <<>>]
               [] b = "raise" ->
                    [next |-> "raise", exc |-> "Exception", urls |-> <<>>]
               [] b = "record" ->
                    [next |-> "marker", exc |-> "none", urls |-> amc_marker]
               [] OTHER ->
                    [next |-> "again", exc |-> "none", urls |-> <<>>]

\* Where process_report_config / process_report goes with the poller's list.
after_poll(v, urls) ==
    IF v = "amc" THEN (IF urls[1] # "" THEN "resolve" ELSE "record")
    ELSE "fetch"

-----------------------------------------------------------------------------
(* fetch_report_data and upload_to_destination.                            *)

\* urlparse(report_url).path.lower() and the endswith dispatch
file_extension(url) ==
    CASE url = "U.gz" -> ".gz"
      [] url = "V.csv" -> ".csv"
      [] url = "W.orc" -> ".orc"
      [] OTHER -> "none"

\* a pipeline that uploads right after the download
fetch_steps_upload_first(ext) ==
    CASE ext = ".gz" -> <<"download", "upload", "decompress", "load_json", "convert">>
      [] ext = ".orc" -> <<"download", "upload", "convert">>
      [] ext = ".csv" -> <<"download", "upload">>
      [] OTHER -> <<>>

\* the steps of fetch_report_data after the extension check, in order
fetch_steps(ext) ==
    CASE ext = ".gz" -> <<"download", "decompress", "load_json", "convert", "upload">>
      [] ext = ".orc" -> <<"download", "convert", "upload">>
      [] ext = ".csv" -> <<"download", "upload">>
      [] OTHER -> <<>>

\* the temporary file a completed step leaves on disk
file_of(ext, step) ==
    CASE step = "download" -> {"downloaded"}
      [] step = "decompress" -> {"decompressed"}
      [] step = "convert" -> {"csv"}
      [] OTHER -> {}

\* files on disk when the call stops in step number k (k = 0: all steps done
\* and cleanup_files has run)
files_left(ext, k) ==
    IF k = 0 THEN {}
    ELSE UNION {file_of(ext, fetch_steps(ext)[i]) : i \in 1..(k - 1)}
         \cup (IF fetch_steps(ext)[k] = "decompress" THEN {"decompressed"} ELSE {})

\* the exception a failing step raises
step_error(step) ==
    CASE step = "download" -> "HTTPError"
      [] step = "decompress" -> "BadGzipFile"
      [] step = "load_json" -> "JSONDecodeError"
      [] step = "convert" -> "Exception"
      [] step = "upload" -> "S3UploadFailedError"

-----------------------------------------------------------------------------
(* State after construction: the connector object exists, main has written *)
(* the empty workflow_status.csv (AMC; rows of earlier date ranges of the  *)
(* same run may already be in it), and no request has been sent.           *)

\* the failure log key of the bucket holds no object
NoLog == [present |-> FALSE, rows |-> <<>>]

\* a download URL, as urlparse and endswith see it: the end of its path and
\* its query string
Url(suffix, query) == [suffix |-> suffix, query |-> query]
FetchUrls ==
    {Url(x, "") : x \in {".gz", ".GZ", ".csv", ".orc", ".txt"}}
    \cup {Url(x, "?name=x.csv") : x \in {".gz", ".txt"}}

\* logical dates, as strftime("%Y"), ("%m"), ("%d") print them
Dates == {[year |-> "2024", month |-> "01", day |-> "01"],
          [year |-> "2024", month |-> "01", day |-> "02"]}

\* destination path templates, by the placeholders they hold
Templates ==
    {[name |-> "{report_type}/{country_code}/{year}/{month}/{day}.csv",
      holes |-> {"report_type", "country_code", "year", "month", "day"}],
     [name |-> "{report_type}/{year}/{month}/latest.csv",
      holes |-> {"report_type", "year", "month"}]}

FetchArgs ==
    [url : FetchUrls, report_type : {"sp", "sb"}, template : Templates,
     date : Dates]
NoArgs == [url |-> Url("none", ""), report_type |-> "none",
           template |-> [name |-> "none", holes |-> {}],
           date |-> [year |-> "0", month |-> "0", day |-> "0"]]

\* what the download GET returns: the data it carries and whether it is
\* what the extension promises
Body(data, form) == [data |-> data, form |-> form]
Bodies == {Body(d, "ok") : d \in {"a", "b"}}
          \cup {Body("a", f) : f \in {"bad_gzip", "bad_json", "bad_table"}}
NoBody == Body("none", "none")

\* the content of a file or of an object of the bucket
Content(fmt, body) == [fmt |-> fmt, data |-> body.data, form |-> body.form]
NoContent == Content("none", NoBody)

EmptyBucket == [k \in {} |-> NoContent]

NoFirst == [result |-> "none", args |-> NoArgs, body |-> NoBody,
            store |-> EmptyBucket]

\* fetch_report_data is not called
FetchIdle ==
    /\ f_calls = 0
    /\ f_args = NoArgs
    /\ f_pc = "idle"
    /\ f_k = 0
    /\ f_exc = "none"
    /\ f_body = NoBody
    /\ f_csv = NoContent
    /\ f_files = {}
    /\ f_created = {}
    /\ f_gets = 0
    /\ f_puts = 0
    /\ f_store = EmptyBucket
    /\ f_before = EmptyBucket
    /\ f_first = NoFirst

\* no reply of call_aws_rest_api yet
NoReply == [has_errors |-> FALSE, codes |-> <<"none">>]

\* neither date-list function is called on its own
DatesIdle ==
    /\ d_pc = "idle"
    /\ d_start = 0
    /\ d_end = 0
    /\ d_n = 0
    /\ d_out = <<>>

\* no loop over download URLs is followed call by call
LoopIdle ==
    /\ u_vendor = "none"
    /\ u_urls = <<>>
    /\ u_template = [name |-> "none", holes |-> {}]
    /\ u_date = [year |-> "0", month |-> "0", day |-> "0"]
    /\ u_idx = 0
    /\ u_pc = "idle"
    /\ u_exc = "none"
    /\ u_calls = <<>>
    /\ u_puts = <<>>
    /\ u_store = EmptyBucket

\* fetch_latest_available_report_end_date is not followed request by request
DiscoveryIdle ==
    /\ v_pc = "idle"
    /\ v_table = "none"
    /\ v_assume = 0
    /\ v_end = 0
    /\ v_tried = <<>>
    /\ v_exc = "none"
    /\ v_ret = "none"

\* raw_dataframe_builder of a promotion or coupon table is not followed
PromoIdle ==
    /\ p_pc = "idle"
    /\ p_end = "none"
    /\ p_df = NoContent
    /\ p_exc = "none"

\* the Walmart main is not followed
WalmartIdle ==
    /\ w_pc = "idle"
    /\ w_args = [date |-> 0, start_date |-> 0, end_date |-> 0]
    /\ w_start = 0
    /\ w_end = 0
    /\ w_cur = 0
    /\ w_calls = <<>>
    /\ w_exc = "none"

\* raw_dataframe_builder of a general table is not followed
BuilderIdle ==
    /\ b_pc = "idle"
    /\ b_end = 0
    /\ b_lookback = 0
    /\ b_report = [kind |-> "none", columns |-> <<>>]
    /\ b_list = <<>>
    /\ b_i = 0
    /\ b_df = [kind |-> "none", columns |-> <<>>]
    /\ b_requests = <<>>
    /\ b_exc = "none"
    /\ b_store = EmptyBucket
    /\ b_store0 = EmptyBucket

\* get_report_from_avc is not followed request by request
AvcIdle ==
    /\ a_pc = "idle"
    /\ a_at = "none"
    /\ a_exc = "none"
    /\ a_throttled = FALSE
    /\ a_job = "none"
    /\ a_attempts = 0
    /\ a_sleep = 0
    /\ a_reply = NoReply
    /\ a_req = "none"
    /\ a_status = "none"
    /\ a_polls = 0
    /\ a_tick = FALSE

\* move_previous_csv_to_processed_folder is not called
RotationIdle ==
    /\ r_pc = "returned"
    /\ r_dates = {}
    /\ r_list = <<>>
    /\ r_n = 0
    /\ r_k = 0
    /\ r_df = NoContent
    /\ r_exc = "none"
    /\ r_bucket = EmptyBucket
    /\ r_start = EmptyBucket

\* no main is running
RunIdle ==
    /\ run_vendor = "none"
    /\ date_list = <<>>
    /\ run_i = 0
    /\ run_pc = "done"
    /\ run_exc = "none"
    /\ run_ends = <<>>
    /\ run_reports = {}
    /\ run_log = <<>>
    /\ run_sink_log = NoLog
    /\ run_flushes = 0
    /\ run_template = [name |-> "none", holes |-> {}]
    /\ run_store = EmptyBucket

OldRow == [workflowID |-> "R0", date |-> 0, report_type |-> "report", status |-> "FAILURE"]

Init ==
    /\ vendor \in Vendors
    /\ date \in (IF vendor = "amc" THEN 1..MaxDate ELSE {1})
    /\ pc = "create"
    /\ exc = "none"
    /\ raised_at = "none"
    /\ report_id = "none"
    /\ posts = 0
    /\ polls = 0
    /\ sleeps = 0
    /\ retries = 0
    /\ quota = 0
    /\ hist = <<>>
    /\ resp = NoResp
    /\ ret = NoReturn
    /\ idx = 0
    /\ mat_calls = 0
    /\ downloads = 0
    /\ uploads = 0
    /\ dest = "absent"
    /\ tmp = {}
    /\ resolved = NoResolve
    /\ wf_status = NoWf
    /\ wf_log \in (IF vendor = "amc" THEN {<<>>, <<OldRow>>} ELSE {<<>>})
    /\ log_uploads = 0
    /\ RunIdle
    /\ FetchIdle
    /\ RotationIdle
    /\ AvcIdle
    /\ BuilderIdle
    /\ WalmartIdle
    /\ PromoIdle
    /\ DiscoveryIdle
    /\ LoopIdle
    /\ DatesIdle

Raise(e, where) ==
    /\ pc' = "raised"
    /\ exc' = e
    /\ raised_at' = where

-----------------------------------------------------------------------------
(* create_report_request (Amazon Ads, AMC, Instacart).                     *)

\* what the creation call can meet: a missing report type / configuration
\* (checked before the POST; Instacart has no such check), an HTTP error,
\* a response without the job id, or a job id
create_cases(v) ==
    (IF v = "instacart" THEN {} ELSE {"no_config"}) \cup {"http_error", "no_id", "ok"}

\* a creation call that sends the POST again after an HTTP error
create_posts_retry(c) ==
    IF c = "no_config" THEN 0 ELSE IF c = "http_error" THEN 2 ELSE 1

create_posts(c) == IF c = "no_config" THEN 0 ELSE 1

create_error(v, c) ==
    CASE c = "no_config" -> "ValueError"
      [] c = "http_error" -> "HTTPError"
      [] c = "no_id" -> IF v = "instacart" THEN "RuntimeError" ELSE "Exception"
      [] OTHER -> "none"

CreateReport ==
    /\ vendor \in Pollers
    /\ pc = "create"
    /\ \E c \in create_cases(vendor) :
         /\ posts' = posts + create_posts(c)
         /\ IF create_error(vendor, c) = "none"
            THEN /\ report_id' = "R1"
                 /\ pc' = "poll"
                 /\ UNCHANGED <<exc, raised_at>>
            ELSE /\ Raise(create_error(vendor, c), "create")
                 /\ UNCHANGED report_id
    /\ UNCHANGED <<vendor, date, polls, sleeps, retries, quota, hist, resp, ret,
                   idx, mat_calls, downloads, uploads, dest, tmp, wf_status,
                   wf_log, log_uploads,
                   resolved>>
    /\ UNCHANGED outside_job

-----------------------------------------------------------------------------
(* fetch_report_url (Amazon Ads, AMC, Instacart): one pass of the loop.    *)

Poll ==
    /\ vendor \in Pollers
    /\ pc = "poll"
    /\ retries < max_retries(vendor)
    /\ \E r \in StatusAnswers(resp) :
         LET o == poll_outcome(vendor, r, report_id)
         IN  /\ polls' = polls + 1
             /\ resp' = r
             /\ hist' = IF r.http = "ok" THEN Remember(hist, r.status) ELSE hist
             /\ CASE o.next = "again" ->
                       /\ retries' = retries + 1
                       /\ sleeps' = sleeps + 1
                       /\ UNCHANGED <<pc, exc, raised_at, ret, wf_status>>
                  [] o.next = "return" ->
                       /\ ret' = [kind |-> "urls", urls |-> o.urls]
                       /\ pc' = after_poll(vendor, o.urls)
                       /\ UNCHANGED <<retries, sleeps, exc, raised_at, wf_status>>
                  [] o.next = "marker" ->
                       /\ ret' = [kind |-> "marker", urls |-> o.urls]
                       /\ wf_status' = [workflowID |-> report_id, date |-> 0,
                                        report_type |-> "none", status |-> r.status]
                       /\ pc' = after_poll(vendor, o.urls)
                       /\ UNCHANGED <<retries, sleeps, exc, raised_at>>
                  [] o.next = "raise" ->
                       /\ Raise(o.exc, "poll")
                       /\ UNCHANGED <<retries, sleeps, ret, wf_status>>
    /\ UNCHANGED <<vendor, date, report_id, posts, quota, idx, mat_calls,
                   downloads, uploads, dest, tmp, wf_log, log_uploads,
                   resolved>>
    /\ UNCHANGED outside_job

\* the loop condition fails: the retries are exhausted
Timeout ==
    /\ vendor \in Pollers
    /\ pc = "poll"
    /\ ~(retries < max_retries(vendor))
    /\ Raise("TimeoutError", "poll")
    /\ UNCHANGED <<vendor, date, report_id, posts, polls, sleeps, retries, quota,
                   hist, resp, ret, idx, mat_calls, downloads, uploads, dest,
                   tmp, wf_status, wf_log, log_uploads,
                   resolved>>
    /\ UNCHANGED outside_job

-----------------------------------------------------------------------------
(* process_report_config / process_report after the poller returned.       *)

ReportType == "report"

\* Amazon Ads, Instacart: fetch_report_data on the next URL of the list.
\* k is the step the call fails in (0: none).
FetchReportData ==
    /\ vendor \in {"ads", "instacart"}
    /\ pc = "fetch"
    /\ idx < Len(ret.urls)
    /\ LET url == ret.urls[idx + 1]
           ext == file_extension(url)
           steps == fetch_steps(ext)
       IN  /\ mat_calls' = mat_calls + 1
           /\ IF ext = "none"
              THEN /\ Raise("ValueError", "fetch")
                   /\ UNCHANGED <<idx, downloads, uploads, dest, tmp>>
              ELSE \E k \in 0..Len(steps) :
                     /\ downloads' = downloads + 1
                     /\ tmp' = tmp \cup files_left(ext, k)
                     /\ IF k = 0
                        THEN /\ uploads' = uploads + 1
                             /\ dest' = url
                             /\ idx' = idx + 1
                             /\ pc' = IF idx + 1 = Len(ret.urls) THEN "returned" ELSE "fetch"
                             /\ UNCHANGED <<exc, raised_at>>
                        ELSE /\ Raise(step_error(steps[k]), "fetch")
                             /\ UNCHANGED <<idx, uploads, dest>>
    /\ UNCHANGED <<vendor, date, report_id, posts, polls, sleeps, retries, quota,
                   hist, resp, ret, wf_status, wf_log, log_uploads,
                   resolved>>
    /\ UNCHANGED outside_job

\* AMC: what the GET of the downloadUrls endpoint can answer
DownloadUrlLists == {<<>>, <<"D1">>, <<"D1", "D2">>, <<"D2", "D1">>}

resolve_cases ==
    {[kind |-> k, urls |-> <<>>] : k \in {"http_error", "bad_json", "no_field"}}
    \cup {[kind |-> "ok", urls |-> l] : l \in DownloadUrlLists}

\* raise_for_status, json.loads, json_data.get("downloadUrls")[0]
resolve_error(c) ==
    CASE c.kind = "http_error" -> "HTTPError"
      [] c.kind = "bad_json" -> "JSONDecodeError"
      [] c.kind = "no_field" -> "TypeError"
      [] c.kind = "ok" /\ c.urls = <<>> -> "IndexError"
      [] OTHER -> "none"

\* a caller that takes the last URL of downloadUrls
last_download_url(urls) == urls[Len(urls)]

\* json_data.get("downloadUrls")[0]
first_download_url(urls) == urls[1]

\* the body the unchecked GET of a download URL returns
artifact_bodies(u) ==
    CASE u = "D1" -> {"D1 data", "D1 http error body"}
      [] u = "D2" -> {"D2 data", "D2 http error body"}

\* a log writer that writes the new row over the file
workflow_log_overwrite(log, row) == <<row>>

\* pd.read_csv('workflow_status.csv'), pd.concat with the one-row frame of
\* wf_status, to_csv: the rows of the file after the failure branch
workflow_log_concat(log, row) == Append(log, row)

\* AMC, success branch: resolve downloadUrls, GET the first URL, write
\* /tmp/<report_type>.csv and upload it.
AmcFetch ==
    /\ vendor = "amc"
    /\ pc = "resolve"
    /\ \E c \in resolve_cases :
         /\ resolved' = c
         /\ IF resolve_error(c) # "none"
            THEN /\ Raise(resolve_error(c), "resolve")
                 /\ UNCHANGED <<downloads, uploads, dest, tmp>>
            ELSE \E body \in artifact_bodies(first_download_url(c.urls)) :
                   /\ downloads' = downloads + 1
                   /\ tmp' = tmp \cup {"report_type.csv"}
                   /\ uploads' = uploads + 1
                   /\ dest' = body
                   /\ pc' = "returned"
                   /\ UNCHANGED <<exc, raised_at>>
    /\ UNCHANGED <<vendor, date, report_id, posts, polls, sleeps, retries, quota,
                   hist, resp, ret, idx, mat_calls, wf_status, wf_log, log_uploads>>
    /\ UNCHANGED outside_job

\* AMC, failure branch: complete the workflow-status row, append it to
\* workflow_status.csv and upload the log.
AmcRecord ==
    /\ vendor = "amc"
    /\ pc = "record"
    /\ wf_status' = [wf_status EXCEPT !.date = date, !.report_type = ReportType]
    /\ wf_log' = workflow_log_concat(wf_log, wf_status')
    /\ log_uploads' = IF wf_log' # <<>> THEN log_uploads + 1 ELSE log_uploads
    /\ pc' = "returned"
    /\ UNCHANGED <<vendor, date, exc, raised_at, report_id, posts, polls, sleeps,
                   retries, quota, hist, resp, ret, idx, mat_calls, downloads,
                   uploads, dest, tmp,
                   resolved>>
    /\ UNCHANGED outside_job

-----------------------------------------------------------------------------
(* AVC: get_report_from_avc over api_call_with_delay.                      *)

\* what call_aws_rest_api can return: the parsed body, with or without an
\* 'errors' list
NoErrors == [has_errors |-> FALSE, codes |-> <<>>]
Errors(cs) == [has_errors |-> TRUE, codes |-> cs]
ApiReplies(q) ==
    {NoErrors, Errors(<<"InvalidInput">>), Errors(<<"InvalidInput", "QuotaExceeded">>)}
    \cup (IF q < MaxQuota
          THEN {Errors(<<"QuotaExceeded">>), Errors(<<"QuotaExceeded", "InvalidInput">>)}
          ELSE {})

\* a loop that gives up on QuotaExceeded like on any other error
api_call_without_delay(reply) ==
    IF reply.has_errors THEN "raise" ELSE "return"

\* one pass of the loop of api_call_with_delay: "sleep" (and call again),
\* "raise" or "return"
api_call_with_delay(reply) ==
    IF reply.has_errors /\ reply.codes[1] = "QuotaExceeded" THEN "sleep"
    ELSE IF reply.has_errors THEN "raise"
    ELSE "return"

\* a status loop that only a success status ends
avc_branch_until_done(s) ==
    IF s # "DONE" THEN "again" ELSE "document"

\* the loop condition of the status poll of get_report_from_avc
avc_branch(s) ==
    IF s = "IN_QUEUE" \/ s = "IN_PROGRESS" THEN "again" ELSE "document"

\* status answers of the AVC endpoint: processingStatus and, in the url
\* slot, reportDocumentId
DocId == Field("str", "DOC", <<>>)
AvcAnswers(prev) ==
    IF prev.http = "ok" /\ prev.status \in Final
    THEN {prev}
    ELSE {Answer(s, f) : s \in Vocabulary, f \in {Missing, DocId}}

\* the creation POST, sent through api_call_with_delay
AvcCreate ==
    /\ vendor = "avc"
    /\ pc = "create"
    /\ \E reply \in ApiReplies(quota), has_id \in BOOLEAN :
         /\ posts' = posts + 1
         /\ CASE api_call_with_delay(reply) = "sleep" ->
                   /\ quota' = quota + 1
                   /\ UNCHANGED <<pc, exc, raised_at, report_id>>
              [] api_call_with_delay(reply) = "raise" ->
                   /\ Raise("Exception", "create")
                   /\ UNCHANGED <<quota, report_id>>
              [] api_call_with_delay(reply) = "return" /\ has_id ->
                   /\ report_id' = "R1"
                   /\ pc' = "avc_status"
                   /\ UNCHANGED <<quota, exc, raised_at>>
              [] OTHER ->
                   /\ Raise("KeyError", "create")
                   /\ UNCHANGED <<quota, report_id>>
    /\ UNCHANGED <<vendor, date, polls, sleeps, retries, hist, resp, ret, idx,
                   mat_calls, downloads, uploads, dest, tmp, wf_status, wf_log,
                   log_uploads,
                   resolved>>
    /\ UNCHANGED outside_job

\* one status GET, sent through api_call_with_delay, and the loop test on
\* its answer
AvcStatus ==
    /\ vendor = "avc"
    /\ pc = "avc_status"
    /\ polls < MaxAvcPolls
    /\ \E reply \in ApiReplies(quota), r \in AvcAnswers(resp) :
         /\ polls' = polls + 1
         /\ CASE api_call_with_delay(reply) = "sleep" ->
                   /\ quota' = quota + 1
                   /\ UNCHANGED <<pc, exc, raised_at, sleeps, hist, resp>>
              [] api_call_with_delay(reply) = "raise" ->
                   /\ Raise("Exception", "poll")
                   /\ UNCHANGED <<quota, sleeps, hist, resp>>
              [] api_call_with_delay(reply) = "return" /\ r.status = NoStatus ->
                   /\ Raise("KeyError", "poll")
                   /\ resp' = r
                   /\ UNCHANGED <<quota, sleeps, hist>>
              [] api_call_with_delay(reply) = "return" /\ r.status # NoStatus
                     /\ avc_branch(r.status) = "again" ->
                   /\ resp' = r
                   /\ hist' = Remember(hist, r.status)
                   /\ sleeps' = sleeps + 1
                   /\ UNCHANGED <<quota, pc, exc, raised_at>>
              [] OTHER ->
                   /\ resp' = r
                   /\ hist' = Remember(hist, r.status)
                   /\ IF r.url = DocId
                      THEN pc' = "avc_document" /\ UNCHANGED <<exc, raised_at>>
                      ELSE Raise("KeyError", "document")
                   /\ UNCHANGED <<quota, sleeps>>
    /\ UNCHANGED <<vendor, date, report_id, posts, retries, ret, idx, mat_calls,
                   downloads, uploads, dest, tmp, wf_status, wf_log, log_uploads,
                   resolved>>
    /\ UNCHANGED outside_job

\* the report-document GET, sent through api_call_with_delay, and the
\* download of the document's url
AvcDocument ==
    /\ vendor = "avc"
    /\ pc = "avc_document"
    /\ \E reply \in ApiReplies(quota), has_url \in BOOLEAN, ok \in BOOLEAN :
         CASE api_call_with_delay(reply) = "sleep" ->
                /\ quota' = quota + 1
                /\ UNCHANGED <<pc, exc, raised_at, ret, downloads>>
           [] api_call_with_delay(reply) = "raise" ->
                /\ Raise("Exception", "document")
                /\ UNCHANGED <<quota, ret, downloads>>
           [] api_call_with_delay(reply) = "return" /\ ~has_url ->
                /\ Raise("KeyError", "document")
                /\ UNCHANGED <<quota, ret, downloads>>
           [] OTHER ->
                /\ downloads' = downloads + 1
                /\ IF ok
                   THEN /\ ret' = [kind |-> "urls", urls |-> <<"avc document">>]
                        /\ pc' = "returned"
                        /\ UNCHANGED <<exc, raised_at>>
                   ELSE /\ Raise("HTTPError", "download")
                        /\ UNCHANGED ret
                /\ UNCHANGED quota
    /\ UNCHANGED <<vendor, date, report_id, posts, polls, sleeps, retries, hist,
                   resp, idx, mat_calls, uploads, dest, tmp, wf_status, wf_log,
                   log_uploads,
                   resolved>>
    /\ UNCHANGED outside_job

-----------------------------------------------------------------------------

Next ==
    \/ CreateReport
    \/ Poll
    \/ Timeout
    \/ FetchReportData
    \/ AmcFetch
    \/ AmcRecord
    \/ AvcCreate
    \/ AvcStatus
    \/ AvcDocument

Spec == Init /\ [][Next]_vars

-----------------------------------------------------------------------------
(* main of Amazon Ads (amazon_ads_main.py) and of AMC (amc_main.py): the   *)
(* date list and the loop over its date ranges.  Dates are day numbers.    *)
(* One step is one process_report_config call, taken by how its job ends;  *)
(* the steps inside the call are the actions of Spec.                      *)

\* a min that always answers its first argument
first_of(a, b) == a

Min(a, b) == IF a <= b THEN a ELSE b

\* the default of generate_intervals' parameter interval_days
interval_days == 10

RECURSIVE generate_intervals(_, _, _)
generate_intervals(start_date, end_date, n) ==
    IF start_date <= end_date
    THEN LET interval_end == Min(start_date + n - 1, end_date)
         IN  <<<<start_date, interval_end>>>>
             \o generate_intervals(interval_end + 1, end_date, n)
    ELSE <<>>

RECURSIVE make_api_calls_daily(_, _)
make_api_calls_daily(start_date, end_date) ==
    IF start_date < end_date
    THEN <<<<start_date, start_date + 1>>>>
         \o make_api_calls_daily(start_date + 1, end_date)
    ELSE <<>>

\* a key that also holds the name of the uploaded file
s3_key_with_file_name(file_path, report_type, template, country_code, d) ==
    [template |-> template.name,
     values |-> [h \in template.holes \cup {"file"} |->
                   CASE h = "report_type" -> report_type
                     [] h = "country_code" -> country_code
                     [] h = "year" -> d.year
                     [] h = "month" -> d.month
                     [] h = "day" -> d.day
                     [] h = "file" -> file_path.name]]

\* upload_to_destination: destination_path_template.format(...)
s3_key(file_path, report_type, template, country_code, d) ==
    [template |-> template.name,
     values |-> [h \in template.holes |->
                   CASE h = "report_type" -> report_type
                     [] h = "country_code" -> country_code
                     [] h = "year" -> d.year
                     [] h = "month" -> d.month
                     [] h = "day" -> d.day]]

CountryCode == "US"

\* s3.upload_file: the object at the key is replaced
put_object(store, key, content) ==
    [k \in DOMAIN store \cup {key} |-> IF k = key THEN content ELSE store[k]]

\* the date list main builds from --start_date and --end_date
main_date_list(v, start_date, end_date) ==
    IF v = "ads" THEN generate_intervals(start_date, end_date, interval_days)
    ELSE make_api_calls_daily(start_date, end_date)

\* the date the destination key of a date range is built from: Amazon Ads
\* passes end_date_obj to fetch_report_data, AMC start_date_obj to
\* upload_to_destination
key_date(v, range) == IF v = "ads" THEN range[2] ELSE range[1]

\* strftime("%m") and ("%d") of the days of a month
DayNames == <<"01", "02", "03", "04", "05", "06", "07", "08", "09", "10",
              "11", "12", "13", "14", "15", "16", "17", "18", "19", "20",
              "21", "22", "23", "24", "25", "26", "27", "28", "29", "30", "31">>

\* a date printed without its day of the month
strftime_ym(n) ==
    IF n <= 12
    THEN [year |-> "2024", month |-> "01", day |-> "01"]
    ELSE [year |-> "2024", month |-> "02", day |-> "01"]

\* datetime.strptime(..., '%Y-%m-%d').date() and the three strftime calls of
\* upload_to_destination, for day number n; day 1 is 2024-01-20, so that the
\* days of a run cross the end of January
strftime_ymd(n) ==
    IF n <= 12
    THEN [year |-> "2024", month |-> "01", day |-> DayNames[19 + n]]
    ELSE [year |-> "2024", month |-> "02", day |-> DayNames[n - 12]]

\* how the job of one date range ends: the status the vendor settles on
\* (IN_PROGRESS: it never leaves it), or an error of a request of the call
JobEnds ==
    {[how |-> "status", what |-> s] :
        s \in {"COMPLETED", "SUCCEEDED", "FAILURE", "REJECTED", "FAILED", "IN_PROGRESS"}}
    \cup {[how |-> "error", what |-> e] : e \in {"HTTPError", "ValueError"}}

\* process_report_config, by its result: the report was uploaded, the
\* failure was recorded (AMC), or an exception left the call
process_report_config(v, j) ==
    IF j.how = "error" THEN [result |-> "raised", exc |-> j.what]
    ELSE LET b == status_branch(v, j.what)
         IN  CASE b = "success" -> [result |-> "uploaded", exc |-> "none"]
               [] b = "record" -> [result |-> "recorded", exc |-> "none"]
               [] b = "raise" -> [result |-> "raised", exc |-> "Exception"]
               [] OTHER -> [result |-> "raised", exc |-> "TimeoutError"]

\* a main whose handler logs the exception and goes on with the loop
main_except_continue(e) == "continue"

\* the except clauses of main: log and re-raise
main_except(e) == "raise"

\* days --start_date and --end_date are taken from
RunDays == 1..(interval_days * (MaxRanges - 1) + 2)

\* main has parsed its arguments, built the date list and (AMC) written the
\* header-only workflow_status.csv; the log key of the bucket may hold the
\* log of an earlier run of the same day
RunStart ==
    /\ run_vendor \in {"ads", "amc"}
    /\ \E start_date \in {1, 2}, end_date \in RunDays :
         /\ date_list = main_date_list(run_vendor, start_date, end_date)
         /\ Len(date_list) <= MaxRanges
    /\ run_i = 0
    /\ run_pc = "loop"
    /\ run_exc = "none"
    /\ run_ends = <<>>
    /\ run_reports = {}
    /\ run_log = <<>>
    /\ run_sink_log \in (IF run_vendor = "amc"
                         THEN {NoLog, [present |-> TRUE, rows |-> <<OldRow>>]}
                         ELSE {NoLog})
    /\ run_flushes = 0
    /\ run_template \in Templates
    /\ run_store = EmptyBucket

\* no process_report_config call is modelled step by step
JobIdle ==
    /\ vendor = "none"
    /\ date = 0
    /\ pc = "returned"
    /\ exc = "none"
    /\ raised_at = "none"
    /\ report_id = "none"
    /\ posts = 0
    /\ polls = 0
    /\ sleeps = 0
    /\ retries = 0
    /\ quota = 0
    /\ hist = <<>>
    /\ resp = NoResp
    /\ ret = NoReturn
    /\ idx = 0
    /\ mat_calls = 0
    /\ downloads = 0
    /\ uploads = 0
    /\ dest = "absent"
    /\ tmp = {}
    /\ resolved = NoResolve
    /\ wf_status = NoWf
    /\ wf_log = <<>>
    /\ log_uploads = 0

InitRun ==
    /\ RunStart
    /\ JobIdle
    /\ FetchIdle
    /\ RotationIdle
    /\ AvcIdle
    /\ BuilderIdle
    /\ WalmartIdle
    /\ PromoIdle
    /\ DiscoveryIdle
    /\ LoopIdle
    /\ DatesIdle

\* the row process_report_config appends for a recorded failure
wf_row(range, j) ==
    [workflowID |-> "R1", date |-> range[1], report_type |-> ReportType,
     status |-> j.what]

\* one pass of the for loop of main: process_report_config on the next
\* date range
RunDateRange ==
    /\ run_pc = "loop"
    /\ run_i < Len(date_list)
    /\ \E j \in JobEnds :
         LET range == date_list[run_i + 1]
             r == process_report_config(run_vendor, j)
         IN  /\ run_i' = run_i + 1
             /\ run_ends' = Append(run_ends, j)
             /\ CASE r.result = "uploaded" ->
                       /\ run_reports' = run_reports \cup {key_date(run_vendor, range)}
                       /\ UNCHANGED <<run_pc, run_exc, run_log, run_sink_log,
                                      run_flushes>>
                  [] r.result = "recorded" ->
                       /\ run_log' = workflow_log_concat(run_log, wf_row(range, j))
                       /\ IF run_log' # <<>>
                          THEN /\ run_sink_log' = [present |-> TRUE, rows |-> run_log']
                               /\ run_flushes' = run_flushes + 1
                          ELSE UNCHANGED <<run_sink_log, run_flushes>>
                       /\ UNCHANGED <<run_pc, run_exc, run_reports>>
                  [] r.result = "raised" /\ main_except(r.exc) = "raise" ->
                       /\ run_pc' = "raised"
                       /\ run_exc' = r.exc
                       /\ UNCHANGED <<run_reports, run_log, run_sink_log,
                                      run_flushes>>
                  [] OTHER ->
                       UNCHANGED <<run_pc, run_exc, run_reports, run_log,
                                   run_sink_log, run_flushes>>
             /\ run_store' =
                   IF r.result = "uploaded"
                   THEN put_object(run_store,
                                   s3_key([name |-> "report", suffix |-> ".csv"], ReportType,
                                          run_template, CountryCode,
                                          strftime_ymd(key_date(run_vendor, range))),
                                   range)
                   ELSE run_store
    /\ UNCHANGED <<run_vendor, date_list, run_template>>
    /\ UNCHANGED outside_run

\* the date list is exhausted: main returns
RunReturn ==
    /\ run_pc = "loop"
    /\ run_i = Len(date_list)
    /\ run_pc' = "done"
    /\ UNCHANGED <<run_vendor, date_list, run_i, run_exc, run_ends,
                   run_reports, run_log, run_sink_log, run_flushes,
                   run_template, run_store>>
    /\ UNCHANGED outside_run

NextRun ==
    \/ RunDateRange
    \/ RunReturn

SpecRun == InitRun /\ [][NextRun]_vars

-----------------------------------------------------------------------------
(* fetch_report_data (report_processor.py), one statement group per step,  *)
(* called once and then once more by its caller.                           *)

\* str.lower() on the end of the URL's path
lower(x) ==
    CASE x = ".GZ" -> ".gz"
      [] OTHER -> x

\* an extension check on the whole URL, query string included
extension_of_whole_url(u) ==
    LET tail == lower(IF u.query = "" THEN u.suffix ELSE ".csv")
    IN  IF tail \in {".orc", ".gz", ".csv"} THEN tail ELSE "none"

\* urlparse(report_url).path.lower() and the endswith chain
extension_of(u) ==
    LET path == lower(u.suffix)
    IN  IF path = ".orc" THEN ".orc"
        ELSE IF path = ".gz" THEN ".gz"
        ELSE IF path = ".csv" THEN ".csv"
        ELSE "none"

\* the files of one call: the NamedTemporaryFile (its random name is taken
\* from the call's number), decompress_file's output, and the CSV of
\* convert_json_to_csv (a fixed path) or convert_orc_to_csv
File(name, suffix) == [name |-> name, suffix |-> suffix]
local_filename(n, ext) == File(IF n = 1 THEN "tmp1" ELSE "tmp2", ext)
decompressed_path(f) == File(f.name, "")
csv_filename(f, ext) ==
    CASE ext = ".gz" -> File("report", ".csv")
      [] ext = ".orc" -> File(f.name, ".csv")
      [] OTHER -> f

\* the argument of cleanup_files
cleanup_list(f, ext) ==
    IF ext = ".gz" THEN {f, decompressed_path(f), csv_filename(f, ext)}
    ELSE {f, csv_filename(f, ext)}

\* whether a step fails on the downloaded body
step_fails(ext, step, body) ==
    CASE step = "decompress" -> body.form = "bad_gzip"
      [] step = "load_json" -> body.form = "bad_json"
      [] step = "convert" /\ ext = ".gz" -> body.form = "bad_table"
      [] step = "convert" /\ ext = ".orc" -> body.form # "ok"
      [] OTHER -> FALSE

\* the caller calls fetch_report_data
FetchEnter(a) ==
    /\ f_calls' = f_calls + 1
    /\ f_args' = a
    /\ f_pc' = "check"
    /\ f_k' = 0
    /\ f_exc' = "none"
    /\ f_body' = NoBody
    /\ f_csv' = NoContent
    /\ f_created' = {}
    /\ f_gets' = 0
    /\ f_puts' = 0
    /\ f_before' = f_store
    /\ UNCHANGED <<f_files, f_store>>

FetchCall ==
    /\ f_pc = "idle"
    /\ \E a \in FetchArgs : FetchEnter(a)
    /\ UNCHANGED f_first
    /\ UNCHANGED outside_fetch

\* the caller calls fetch_report_data once more after the first call ended
FetchCallAgain ==
    /\ f_pc \in {"returned", "raised"}
    /\ f_first = NoFirst
    /\ \E a \in FetchArgs : FetchEnter(a)
    /\ f_first' = [result |-> f_pc, args |-> f_args, body |-> f_body,
                   store |-> f_store]
    /\ UNCHANGED outside_fetch

FetchRaise(e) ==
    /\ f_pc' = "raised"
    /\ f_exc' = e

\* Step 1: the extension of the URL's path
FetchCheck ==
    /\ f_pc = "check"
    /\ IF extension_of(f_args.url) = "none"
       THEN FetchRaise("ValueError")
       ELSE f_pc' = "step" /\ UNCHANGED f_exc
    /\ UNCHANGED <<f_calls, f_args, f_k, f_body, f_csv, f_files, f_created,
                   f_gets, f_puts, f_store, f_before, f_first>>
    /\ UNCHANGED outside_fetch

\* the step of fetch_steps that is next
f_ext == extension_of(f_args.url)
f_step == fetch_steps(f_ext)[f_k + 1]
f_local == local_filename(f_calls, f_ext)

\* Steps 2 and 3: requests.get, raise_for_status, and the temporary file
FetchDownload ==
    /\ f_pc = "step"
    /\ f_k < Len(fetch_steps(f_ext))
    /\ f_step = "download"
    /\ f_gets' = f_gets + 1
    /\ \E ok \in BOOLEAN, body \in Bodies :
         IF ok
         THEN /\ f_body' = body
              /\ f_files' = f_files \cup {f_local}
              /\ f_created' = f_created \cup {f_local}
              /\ f_csv' = IF f_ext = ".csv" THEN Content("raw", body) ELSE f_csv
              /\ f_k' = f_k + 1
              /\ UNCHANGED <<f_pc, f_exc>>
         ELSE /\ FetchRaise(step_error("download"))
              /\ UNCHANGED <<f_body, f_files, f_created, f_csv, f_k>>
    /\ UNCHANGED <<f_calls, f_args, f_puts, f_store, f_before, f_first>>
    /\ UNCHANGED outside_fetch

\* decompress_file, load_json, convert_json_to_csv, convert_orc_to_csv
FetchDecode ==
    /\ f_pc = "step"
    /\ f_k < Len(fetch_steps(f_ext))
    /\ f_step \in {"decompress", "load_json", "convert"}
    /\ LET made == CASE f_step = "decompress" -> {decompressed_path(f_local)}
                     [] f_step = "convert" /\ ~step_fails(f_ext, f_step, f_body) ->
                          {csv_filename(f_local, f_ext)}
                     [] OTHER -> {}
       IN  /\ f_files' = f_files \cup made
           /\ f_created' = f_created \cup made
    /\ IF step_fails(f_ext, f_step, f_body)
       THEN /\ FetchRaise(step_error(f_step))
            /\ UNCHANGED <<f_csv, f_k>>
       ELSE /\ f_csv' = IF f_step = "convert" THEN Content("csv", f_body) ELSE f_csv
            /\ f_k' = f_k + 1
            /\ UNCHANGED <<f_pc, f_exc>>
    /\ UNCHANGED <<f_calls, f_args, f_body, f_gets, f_puts, f_store, f_before,
                   f_first>>
    /\ UNCHANGED outside_fetch

\* upload_to_destination
FetchUpload ==
    /\ f_pc = "step"
    /\ f_k < Len(fetch_steps(f_ext))
    /\ f_step = "upload"
    /\ \E ok \in BOOLEAN :
         IF ok
         THEN /\ f_store' = put_object(f_store,
                                s3_key(csv_filename(f_local, f_ext),
                                       f_args.report_type, f_args.template,
                                       CountryCode, f_args.date),
                                f_csv)
              /\ f_puts' = f_puts + 1
              /\ f_k' = f_k + 1
              /\ UNCHANGED <<f_pc, f_exc>>
         ELSE /\ FetchRaise(step_error("upload"))
              /\ UNCHANGED <<f_store, f_puts, f_k>>
    /\ UNCHANGED <<f_calls, f_args, f_body, f_csv, f_files, f_created, f_gets,
                   f_before, f_first>>
    /\ UNCHANGED outside_fetch

\* Step 6: cleanup_files, reached when every step before it succeeded
FetchCleanup ==
    /\ f_pc = "step"
    /\ f_k = Len(fetch_steps(f_ext))
    /\ f_files' = f_files \ cleanup_list(f_local, f_ext)
    /\ f_pc' = "returned"
    /\ UNCHANGED <<f_calls, f_args, f_k, f_exc, f_body, f_csv, f_created,
                   f_gets, f_puts, f_store, f_before, f_first>>
    /\ UNCHANGED outside_fetch

InitFetch ==
    /\ FetchIdle
    /\ JobIdle
    /\ RunIdle
    /\ RotationIdle
    /\ AvcIdle
    /\ BuilderIdle
    /\ WalmartIdle
    /\ PromoIdle
    /\ DiscoveryIdle
    /\ LoopIdle
    /\ DatesIdle

NextFetch ==
    \/ FetchCall
    \/ FetchCallAgain
    \/ FetchCheck
    \/ FetchDownload
    \/ FetchDecode
    \/ FetchUpload
    \/ FetchCleanup

SpecFetch == InitFetch /\ [][NextFetch]_vars

-----------------------------------------------------------------------------
(* AWSConnection.move_previous_csv_to_processed_folder (aws_connection.py) *)
(* called with source_name "avc" and table_name "T" by a connection whose  *)
(* country_code is "US".                                                   *)

\* an object key <root_folder>/<source>/<country>/<table>/[<folder>/]<name>.<ext>
\* where <name> is <table>_<date>
S3Key(source, country, table, folder, d, ext) ==
    [source |-> source, country |-> country, table |-> table,
     folder |-> folder, name |-> <<table, d>>, ext |-> ext]

D1 == "2024-01-01"
D2 == "2024-01-02"

\* the keys the bucket may hold, in the order objects.all() lists them
BucketKeys ==
    <<S3Key("avc", "FR", "T", "", D1, "csv"),
      S3Key("avc", "US", "T", "", D1, "csv"),
      S3Key("avc", "US", "T", "", D1, "xlsx"),
      S3Key("avc", "US", "T", "", D2, "csv"),
      S3Key("avc", "US", "T", "processed", D1, "csv"),
      S3Key("avc", "US", "T", "processed", D1, "parquet"),
      S3Key("avc", "US", "T2", "", D1, "csv"),
      S3Key("flywheel", "US", "T", "", D1, "csv")>>

KeySet == {BucketKeys[n] : n \in 1..Len(BucketKeys)}

\* file.key.startswith(f'{root_folder}/{source_name}/{country_code}/{table_name}/')
under_table(k, source_name, country_code, table_name) ==
    k.source = source_name /\ k.country = country_code /\ k.table = table_name

\* the CSVs of the table that are not under processed/
TableCsvs ==
    {k \in KeySet : under_table(k, "avc", "US", "T") /\ k.folder = ""
                      /\ k.ext = "csv"}

\* what an object holds before the call: a CSV the data of its date, an
\* object under processed/ the data of an earlier rotation; a CSV may be
\* empty (pd.read_csv raises on it)
object_content(k, form) ==
    [fmt |-> k.ext, data |-> IF k.folder = "processed" THEN "earlier" ELSE k.name[2],
     form |-> form]

RotBuckets ==
    {[k \in pe[1] |-> object_content(k, IF k \in pe[2] THEN "empty" ELSE "ok")] :
        pe \in {x \in (SUBSET KeySet) \X (SUBSET TableCsvs) : x[2] \subseteq x[1]}}

\* file.key.split('.')[0].split('_')[-1]
trailing_date(k) == k.name[Len(k.name)]

\* the dates of the .csv objects alone
available_dates_of_csv_objects(store, source_name, table_name) ==
    {trailing_date(k) : k \in {x \in DOMAIN store :
                                  /\ under_table(x, source_name, "US", table_name)
                                  /\ x.ext \in {"csv"}}}

\* the dates the table has a .csv or .parquet object for, anywhere under its
\* prefix (processed/ included); a set: the caller only subtracts it from
\* another list
get_all_available_dates_for_one_table_in_s3(store, source_name, table_name) ==
    {trailing_date(k) : k \in {x \in DOMAIN store :
                                  /\ under_table(x, source_name, "US", table_name)
                                  /\ x.ext \in {"csv", "parquet"}}}

\* a filter that does not look at the dates
rotation_filter_all_dates(k, dates) ==
    /\ ~(under_table(k, "avc", "US", "T") /\ k.folder = "processed")
    /\ under_table(k, "avc", "US", "T")
    /\ k.ext = "csv"

\* the condition of the list comprehension that builds file_list
rotation_filter(k, dates) ==
    /\ ~(under_table(k, "avc", "US", "T") /\ k.folder = "processed")
    /\ under_table(k, "avc", "US", "T")
    /\ trailing_date(k) \notin dates
    /\ k.ext = "csv"

r_listed(k) == k \in DOMAIN r_bucket /\ rotation_filter(k, r_dates)

\* a copy kept beside the tables: .../processed/<table>/<csv_name>.parquet
processed_key_beside_tables(k) ==
    [source |-> "avc", country |-> "US", table |-> "processed", folder |-> "T",
     name |-> k.name, ext |-> "parquet"]

\* the key of the Parquet copy: .../<table>/processed/<csv_name>.parquet
processed_key(k) ==
    [source |-> "avc", country |-> "US", table |-> "T", folder |-> "processed",
     name |-> k.name, ext |-> "parquet"]

\* the body of the loop deleting the source before it writes the copy
rotation_steps_delete_first == <<"read", "delete", "put">>

\* the body of the loop over file_list: get_object and read_csv, put_object
\* of the Parquet bytes, delete_object of the source
rotation_steps == <<"read", "put", "delete">>

\* df.to_parquet() of the frame read from a CSV
to_parquet(df) == [fmt |-> "parquet", data |-> df.data, form |-> df.form]

delete_object(store, key) == [k \in DOMAIN store \ {key} |-> store[k]]

\* the caller has the bucket and the date list
RotationStart ==
    /\ r_pc = "idle"
    /\ r_dates \in SUBSET {D1, D2}
    /\ r_list = <<>>
    /\ r_n = 0
    /\ r_k = 0
    /\ r_df = NoContent
    /\ r_exc = "none"
    /\ r_bucket \in RotBuckets
    /\ r_start = r_bucket

InitRotation ==
    /\ RotationStart
    /\ JobIdle
    /\ RunIdle
    /\ FetchIdle
    /\ AvcIdle
    /\ BuilderIdle
    /\ WalmartIdle
    /\ PromoIdle
    /\ DiscoveryIdle
    /\ LoopIdle
    /\ DatesIdle

\* file_list is built from objects.all()
RotList ==
    /\ r_pc = "idle"
    /\ r_list' = SelectSeq(BucketKeys, r_listed)
    /\ r_pc' = "loop"
    /\ UNCHANGED <<r_dates, r_n, r_k, r_df, r_exc, r_bucket, r_start>>
    /\ UNCHANGED outside_rotation

r_file == r_list[r_n + 1]
r_step == rotation_steps[r_k + 1]

\* a step of the loop body is done: the next step, or the next file
RotAdvance ==
    IF r_k + 1 = Len(rotation_steps)
    THEN r_k' = 0 /\ r_n' = r_n + 1
    ELSE r_k' = r_k + 1 /\ UNCHANGED r_n

RotRaise(e) ==
    /\ r_pc' = "raised"
    /\ r_exc' = e
    /\ UNCHANGED <<r_n, r_k>>

\* get_object(...)['Body'].read() and pd.read_csv
RotRead ==
    /\ r_pc = "loop"
    /\ r_n < Len(r_list)
    /\ r_step = "read"
    /\ \E ok \in BOOLEAN :
         IF ~ok \/ r_file \notin DOMAIN r_bucket
         THEN RotRaise("ClientError") /\ UNCHANGED r_df
         ELSE IF r_bucket[r_file].form = "empty"
         THEN RotRaise("EmptyDataError") /\ UNCHANGED r_df
         ELSE /\ r_df' = r_bucket[r_file]
              /\ RotAdvance
              /\ UNCHANGED <<r_pc, r_exc>>
    /\ UNCHANGED <<r_dates, r_list, r_bucket, r_start>>
    /\ UNCHANGED outside_rotation

\* put_object of the Parquet bytes under processed/
RotPut ==
    /\ r_pc = "loop"
    /\ r_n < Len(r_list)
    /\ r_step = "put"
    /\ \E ok \in BOOLEAN :
         IF ok
         THEN /\ r_bucket' = put_object(r_bucket, processed_key(r_file),
                                        to_parquet(r_df))
              /\ RotAdvance
              /\ UNCHANGED <<r_pc, r_exc>>
         ELSE RotRaise("ClientError") /\ UNCHANGED r_bucket
    /\ UNCHANGED <<r_dates, r_list, r_df, r_start>>
    /\ UNCHANGED outside_rotation

\* delete_object of the source CSV
RotDelete ==
    /\ r_pc = "loop"
    /\ r_n < Len(r_list)
    /\ r_step = "delete"
    /\ \E ok \in BOOLEAN :
         IF ok
         THEN /\ r_bucket' = delete_object(r_bucket, r_file)
              /\ RotAdvance
              /\ UNCHANGED <<r_pc, r_exc>>
         ELSE RotRaise("ClientError") /\ UNCHANGED r_bucket
    /\ UNCHANGED <<r_dates, r_list, r_df, r_start>>
    /\ UNCHANGED outside_rotation

\* file_list is exhausted (or empty): the function returns
RotReturn ==
    /\ r_pc = "loop"
    /\ r_n = Len(r_list)
    /\ r_pc' = "returned"
    /\ UNCHANGED <<r_dates, r_list, r_n, r_k, r_df, r_exc, r_bucket, r_start>>
    /\ UNCHANGED outside_rotation

NextRotation ==
    \/ RotList
    \/ RotRead
    \/ RotPut
    \/ RotDelete
    \/ RotReturn

SpecRotation == InitRotation /\ [][NextRotation]_vars

-----------------------------------------------------------------------------
(* AVCIngestionTask.get_report_from_avc (avc_reports_api.py) request by    *)
(* request, against a vendor that may rate-limit for as long as it likes   *)
(* and reports the report's processingStatus as the report job advances.   *)
(* Neither api_call_with_delay nor the status loop counts its passes:      *)
(* a_attempts and a_polls only observe them, up to MaxAttempts.            *)

\* `delay` of api_call_with_delay, in seconds
delay == 10
\* sleep(5) of the status loop, in seconds
poll_sleep == 5

\* processingStatus values of the reports API
AvcJobStatuses == {"IN_QUEUE", "IN_PROGRESS", "DONE", "CANCELLED", "FATAL"}
job_rank(st) ==
    CASE st = "IN_QUEUE" -> 0 [] st = "IN_PROGRESS" -> 1 [] OTHER -> 2

\* what call_aws_rest_api returns: while the vendor rate-limits, a body whose
\* first error is QuotaExceeded; otherwise a body without errors or with
\* another first error
LiveReplies(throttled) ==
    IF throttled
    THEN {Errors(<<"QuotaExceeded">>), Errors(<<"QuotaExceeded", "InvalidInput">>)}
    ELSE {NoErrors, Errors(<<"InvalidInput">>),
          Errors(<<"InvalidInput", "QuotaExceeded">>)}

Count(n) == Min(n + 1, MaxAttempts)

AvcStart ==
    /\ a_pc = "create"
    /\ a_at = "none"
    /\ a_exc = "none"
    /\ a_throttled \in BOOLEAN
    /\ a_job \in AvcJobStatuses
    /\ a_attempts = 0
    /\ a_sleep = 0
    /\ a_reply = NoReply
    /\ a_req = "none"
    /\ a_status = "none"
    /\ a_polls = 0
    /\ a_tick = FALSE

InitAvc ==
    /\ AvcStart
    /\ JobIdle
    /\ RunIdle
    /\ FetchIdle
    /\ RotationIdle
    /\ BuilderIdle
    /\ WalmartIdle
    /\ PromoIdle
    /\ DiscoveryIdle
    /\ LoopIdle
    /\ DatesIdle

\* the vendor starts or stops rate-limiting
VendorThrottles ==
    /\ a_pc \in {"create", "status", "document"}
    /\ a_throttled' = ~a_throttled
    /\ UNCHANGED <<a_pc, a_at, a_exc, a_job, a_attempts, a_sleep, a_reply,
                   a_req, a_status, a_polls, a_tick>>
    /\ UNCHANGED outside_avc

\* the report job advances at the vendor
JobAdvances ==
    /\ a_pc \in {"create", "status", "document"}
    /\ \E st \in AvcJobStatuses :
         /\ job_rank(st) > job_rank(a_job)
         /\ a_job' = st
    /\ UNCHANGED <<a_pc, a_at, a_exc, a_throttled, a_attempts, a_sleep, a_reply,
                   a_req, a_status, a_polls, a_tick>>
    /\ UNCHANGED outside_avc

\* an exception leaves get_report_from_avc
LiveRaise(e, where) ==
    /\ a_pc' = "raised"
    /\ a_exc' = e
    /\ a_at' = where
    /\ a_attempts' = 0

\* one pass of api_call_with_delay's loop for the request `req`: the request
\* is sent and the reply tested
ApiPass(req, reply) ==
    /\ a_req' = req
    /\ a_reply' = reply
    /\ a_tick' = ~a_tick

\* the pass ended in sleep(delay): the same call goes on
ApiSleeps ==
    /\ a_attempts' = Count(a_attempts)
    /\ a_sleep' = delay
    /\ UNCHANGED <<a_pc, a_at, a_exc>>

\* the creation POST and create_report_response["reportId"]
GetReportCreate ==
    /\ a_pc = "create"
    /\ \E reply \in LiveReplies(a_throttled), has_id \in BOOLEAN :
         /\ ApiPass("POST reports", reply)
         /\ CASE api_call_with_delay(reply) = "sleep" -> ApiSleeps
              [] api_call_with_delay(reply) = "raise" ->
                   LiveRaise("Exception", "create") /\ a_sleep' = 0
              [] api_call_with_delay(reply) = "return" /\ ~has_id ->
                   LiveRaise("KeyError", "create") /\ a_sleep' = 0
              [] OTHER ->
                   /\ a_pc' = "status"
                   /\ a_attempts' = 0
                   /\ a_sleep' = 0
                   /\ UNCHANGED <<a_at, a_exc>>
    /\ UNCHANGED <<a_throttled, a_job, a_status, a_polls>>
    /\ UNCHANGED outside_avc

\* a status GET, get_report_response["processingStatus"] and the test of the
\* while loop: sleep(5) and another GET, or on to
\* get_report_response["reportDocumentId"]
GetReportStatus ==
    /\ a_pc = "status"
    /\ \E reply \in LiveReplies(a_throttled), has_status \in BOOLEAN,
          has_document \in BOOLEAN :
         /\ ApiPass("GET report", reply)
         /\ CASE api_call_with_delay(reply) = "sleep" ->
                   ApiSleeps /\ UNCHANGED <<a_status, a_polls>>
              [] api_call_with_delay(reply) = "raise" ->
                   /\ LiveRaise("Exception", "status")
                   /\ a_sleep' = 0
                   /\ UNCHANGED <<a_status, a_polls>>
              [] api_call_with_delay(reply) = "return" /\ ~has_status ->
                   /\ LiveRaise("KeyError", "status")
                   /\ a_sleep' = 0
                   /\ UNCHANGED <<a_status, a_polls>>
              [] api_call_with_delay(reply) = "return" /\ has_status
                     /\ avc_branch(a_job) = "again" ->
                   /\ a_status' = a_job
                   /\ a_polls' = Count(a_polls)
                   /\ a_sleep' = poll_sleep
                   /\ a_attempts' = 0
                   /\ UNCHANGED <<a_pc, a_at, a_exc>>
              [] OTHER ->
                   /\ a_status' = a_job
                   /\ a_sleep' = 0
                   /\ IF has_document
                      THEN /\ a_pc' = "document"
                           /\ a_attempts' = 0
                           /\ UNCHANGED <<a_at, a_exc>>
                      ELSE LiveRaise("KeyError", "document")
                   /\ UNCHANGED a_polls
    /\ UNCHANGED <<a_throttled, a_job>>
    /\ UNCHANGED outside_avc

\* the report-document GET and download_report_response["url"]
GetReportDocument ==
    /\ a_pc = "document"
    /\ \E reply \in LiveReplies(a_throttled), has_url \in BOOLEAN :
         /\ ApiPass("GET document", reply)
         /\ CASE api_call_with_delay(reply) = "sleep" -> ApiSleeps
              [] api_call_with_delay(reply) = "raise" ->
                   LiveRaise("Exception", "document") /\ a_sleep' = 0
              [] api_call_with_delay(reply) = "return" /\ ~has_url ->
                   LiveRaise("KeyError", "document") /\ a_sleep' = 0
              [] OTHER ->
                   /\ a_pc' = "returned"
                   /\ a_attempts' = 0
                   /\ a_sleep' = 0
                   /\ UNCHANGED <<a_at, a_exc>>
    /\ UNCHANGED <<a_throttled, a_job, a_status, a_polls>>
    /\ UNCHANGED outside_avc

\* the statements of get_report_from_avc
AvcStep ==
    \/ GetReportCreate
    \/ GetReportStatus
    \/ GetReportDocument

NextAvc ==
    \/ VendorThrottles
    \/ JobAdvances
    \/ GetReportCreate
    \/ GetReportStatus
    \/ GetReportDocument

\* the thread that runs get_report_from_avc keeps running: a statement that
\* can be executed is executed; the vendor is under no obligation
SpecAvc == InitAvc /\ [][NextAvc]_vars /\ WF_vars(AvcStep)

-----------------------------------------------------------------------------
(* generate_intervals and make_api_calls_daily (common_utils.py) called on *)
(* their own, with dates as day numbers: strptime and strftime with the    *)
(* same format are inverse to each other on the dates the mains pass.      *)

DatesStart ==
    /\ d_pc = "args"
    /\ d_start \in 1..MaxDay
    /\ d_end \in 0..MaxDay
    /\ d_n \in 1..MaxInterval
    /\ d_out = <<>>

InitDates ==
    /\ DatesStart
    /\ JobIdle
    /\ RunIdle
    /\ FetchIdle
    /\ RotationIdle
    /\ AvcIdle
    /\ BuilderIdle
    /\ WalmartIdle
    /\ PromoIdle
    /\ DiscoveryIdle
    /\ LoopIdle

CallGenerateIntervals ==
    /\ d_pc = "args"
    /\ d_out' = generate_intervals(d_start, d_end, d_n)
    /\ d_pc' = "intervals"
    /\ UNCHANGED <<d_start, d_end, d_n>>
    /\ UNCHANGED outside_dates

CallMakeApiCallsDaily ==
    /\ d_pc = "args"
    /\ d_out' = make_api_calls_daily(d_start, d_end)
    /\ d_pc' = "daily"
    /\ UNCHANGED <<d_start, d_end, d_n>>
    /\ UNCHANGED outside_dates

NextDates ==
    \/ CallGenerateIntervals
    \/ CallMakeApiCallsDaily

SpecDates == InitDates /\ [][NextDates]_vars

-----------------------------------------------------------------------------
(* The loop over the download URLs of a succeeded job: process_report_config *)
(* of Amazon Ads and Instacart, process_report of Walmart.                   *)

\* the URLs a job may list: what they point at and the end of their path
LoopUrls == {[id |-> "u1", suffix |-> ".csv"], [id |-> "u2", suffix |-> ".gz"],
             [id |-> "u3", suffix |-> ".txt"]}

LoopUrlLists == UNION {[1..n -> LoopUrls] : n \in 1..MaxUrls}

\* the except clause around the loop: Amazon Ads and Instacart log and
\* re-raise, Walmart logs and returns
loop_except(v) == IF v = "walmart" THEN "return" ELSE "raise"

LoopStart ==
    /\ u_vendor \in {"ads", "instacart", "walmart"}
    /\ u_urls \in LoopUrlLists
    /\ u_template \in Templates
    /\ u_date \in Dates
    /\ u_idx = 0
    /\ u_pc = "loop"
    /\ u_exc = "none"
    /\ u_calls = <<>>
    /\ u_puts = <<>>
    /\ u_store = EmptyBucket

InitLoop ==
    /\ LoopStart
    /\ JobIdle
    /\ RunIdle
    /\ FetchIdle
    /\ RotationIdle
    /\ AvcIdle
    /\ BuilderIdle
    /\ WalmartIdle
    /\ PromoIdle
    /\ DiscoveryIdle
    /\ DatesIdle

\* the exception of fetch_report_data leaves the loop
LoopFails(e) ==
    /\ u_exc' = e
    /\ u_pc' = IF loop_except(u_vendor) = "raise" THEN "raised" ELSE "returned"
    /\ UNCHANGED <<u_idx, u_puts, u_store>>

\* one pass of the for loop: fetch_report_data on the next URL; k is the
\* step of fetch_report_data that fails (0: none)
LoopFetch ==
    /\ u_pc = "loop"
    /\ u_idx < Len(u_urls)
    /\ LET url == u_urls[u_idx + 1]
           ext == extension_of(Url(url.suffix, ""))
           steps == fetch_steps(ext)
           key == s3_key(File(<<"tmp", u_idx + 1>>, ext), ReportType, u_template,
                         CountryCode, u_date)
       IN  /\ u_calls' = Append(u_calls,
                                [url |-> url, report_type |-> ReportType,
                                 template |-> u_template,
                                 country_code |-> CountryCode, date |-> u_date])
           /\ IF ext = "none"
              THEN LoopFails("ValueError")
              ELSE \E k \in 0..Len(steps) :
                     IF k = 0
                     THEN /\ u_store' = put_object(u_store, key, url.id)
                          /\ u_puts' = Append(u_puts, [key |-> key, url |-> url])
                          /\ u_idx' = u_idx + 1
                          /\ UNCHANGED <<u_pc, u_exc>>
                     ELSE LoopFails(step_error(steps[k]))
    /\ UNCHANGED <<u_vendor, u_urls, u_template, u_date>>
    /\ UNCHANGED outside_loop

\* the list is exhausted
LoopEnd ==
    /\ u_pc = "loop"
    /\ u_idx = Len(u_urls)
    /\ u_pc' = "returned"
    /\ UNCHANGED <<u_vendor, u_urls, u_template, u_date, u_idx, u_exc, u_calls,
                   u_puts, u_store>>
    /\ UNCHANGED outside_loop

NextLoop ==
    \/ LoopFetch
    \/ LoopEnd

SpecLoop == InitLoop /\ [][NextLoop]_vars

-----------------------------------------------------------------------------
(* fetch_latest_available_report_end_date, reportPeriod DAY, for a table that *)
(* is not one of large_json_tables.  Dates are day numbers.                   *)

\* date.today()
DiscoveryToday == 12

\* the values of lookback_days_not_available_assumption['DAY']
AssumedLookbacks == 1..2

\* the answers of get_report_from_avc: "absent" is a key the answer does not
\* have; "msg1" and "msg2" are error_message_to_be_handle and
\* report_error_message_2, "market" a reportRequestError that contains
\* market_basket_report_error_message
DiscoveryReplies ==
    {r \in [errorDetails : {"absent", "msg1", "msg2", "other"},
            reportRequestError : {"absent", "market", "other"},
            data : {"absent", "empty", "rows"}] :
        \/ Cardinality({f \in {"errorDetails", "reportRequestError", "data"} :
                           r[f] # "absent"}) <= 1
        \/ r = [errorDetails |-> "other", reportRequestError |-> "absent",
                data |-> "empty"]}

\* get_report_from_avc raised instead of answering
NoReport == [errorDetails |-> "absent", reportRequestError |-> "absent",
            data |-> "no reply"]

\* a step of two days instead of one
two_days_before(d) == d - 2

\* end_date - timedelta(1)
previous_day(d) == d - 1

\* 4 for sp_inventory, else the configured assumption
lookback_days(table, assume) == IF table = "sp_inventory" THEN 4 ELSE assume

\* the if / elif / else on the answer
discovery_branch(r) ==
    IF \/ (r.errorDetails # "absent" /\ r.errorDetails \in {"msg1", "msg2"})
       \/ (r.reportRequestError # "absent" /\ r.reportRequestError = "market")
       \/ (r.data # "absent" /\ r.data = "empty")
    THEN "back"
    ELSE IF r.errorDetails # "absent" THEN "raise" ELSE "break"

DiscoveryStart ==
    /\ v_pc = "request"
    /\ v_table \in {"sp_sales", "sp_inventory"}
    /\ v_assume \in AssumedLookbacks
    /\ v_end = DiscoveryToday - lookback_days(v_table, v_assume)
    /\ v_tried = <<>>
    /\ v_exc = "none"
    /\ v_ret = "none"

InitDiscovery ==
    /\ DiscoveryStart
    /\ JobIdle
    /\ RunIdle
    /\ FetchIdle
    /\ RotationIdle
    /\ AvcIdle
    /\ BuilderIdle
    /\ WalmartIdle
    /\ PromoIdle
    /\ DatesIdle
    /\ LoopIdle

\* one pass of `while True`: the report of the candidate day is asked for
\* and the answer decides; after break the data of the answer is read
DiscoveryRequest ==
    /\ v_pc = "request"
    /\ Len(v_tried) < MaxBack
    /\ \E r \in DiscoveryReplies :
         /\ v_tried' = Append(v_tried, [start |-> v_end, end |-> v_end, reply |-> r])
         /\ CASE discovery_branch(r) = "back" ->
                   /\ v_end' = previous_day(v_end)
                   /\ UNCHANGED <<v_pc, v_exc, v_ret>>
              [] discovery_branch(r) = "raise" ->
                   /\ v_pc' = "raised"
                   /\ v_exc' = "Exception"
                   /\ UNCHANGED <<v_end, v_ret>>
              [] OTHER ->
                   IF r.data = "absent"
                   THEN /\ v_pc' = "raised"
                        /\ v_exc' = "KeyError"
                        /\ UNCHANGED <<v_end, v_ret>>
                   ELSE /\ v_pc' = "returned"
                        /\ v_ret' = v_end
                        /\ UNCHANGED <<v_end, v_exc>>
    /\ UNCHANGED <<v_table, v_assume>>
    /\ UNCHANGED outside_discovery

\* get_report_from_avc raises: nothing catches it
DiscoveryRequestRaises ==
    /\ v_pc = "request"
    /\ Len(v_tried) < MaxBack
    /\ \E x \in {"Exception", "KeyError"} :
         /\ v_tried' = Append(v_tried, [start |-> v_end, end |-> v_end, reply |-> NoReport])
         /\ v_pc' = "raised"
         /\ v_exc' = x
    /\ UNCHANGED <<v_table, v_assume, v_end, v_ret>>
    /\ UNCHANGED outside_discovery

NextDiscovery ==
    \/ DiscoveryRequest
    \/ DiscoveryRequestRaises

SpecDiscovery == InitDiscovery /\ [][NextDiscovery]_vars

-----------------------------------------------------------------------------
(* raw_dataframe_builder for sp_promotion_performance and                     *)
(* sp_coupon_performance: one report up to now, the rotation of the earlier   *)
(* CSVs, the upload of the new one.  The rotation is the one above, step by   *)
(* step.                                                                      *)

\* the values datetime.now().strftime('%Y-%m-%dT%H:%M:%SZ') may take
Timestamps == {"2024-01-01T23:59:59Z", "2024-01-02T10:30:00Z",
               "2024-01-03T00:00:00Z"}

\* end_date.split("T")[0]
split_T(ts) ==
    CASE ts = "2024-01-01T23:59:59Z" -> D1
      [] ts = "2024-01-02T10:30:00Z" -> D2
      [] ts = "2024-01-03T00:00:00Z" -> "2024-01-03"

\* a date list made of the day of end_date
promo_date_list_of_days(end_date) == {split_T(end_date)}

\* the date list handed to move_previous_csv_to_processed_folder: [end_date]
promo_date_list(end_date) == {end_date}

\* the frame generate_raw_dataframe returns for a report with rows
NewFrame == [fmt |-> "csv", data |-> "new", form |-> "ok"]

\* the key copy_dataframe_as_csv_into_s3_bucket writes: timestamp = date_range[1]
csv_key(date_range) == S3Key("avc", "US", "T", "", date_range[2], "csv")

PromoStart ==
    /\ p_pc = "generate"
    /\ p_end \in Timestamps
    /\ p_df = NoContent
    /\ p_exc = "none"
    /\ r_pc = "uncalled"
    /\ r_dates = {}
    /\ r_list = <<>>
    /\ r_n = 0
    /\ r_k = 0
    /\ r_df = NoContent
    /\ r_exc = "none"
    /\ r_bucket \in RotBuckets
    /\ r_start = r_bucket

InitPromo ==
    /\ PromoStart
    /\ JobIdle
    /\ RunIdle
    /\ FetchIdle
    /\ AvcIdle
    /\ BuilderIdle
    /\ WalmartIdle
    /\ DiscoveryIdle
    /\ LoopIdle
    /\ DatesIdle

\* generate_raw_dataframe: None for a report that is skipped or has no rows,
\* an exception for any other error, else the frame; `if df is not None`
\* then calls the rotation with [end_date]
PromoGenerate ==
    /\ p_pc = "generate"
    /\ \E out \in {"none", "frame", "raise"} :
         CASE out = "none" ->
                /\ p_pc' = "returned"
                /\ UNCHANGED <<p_df, p_exc, r_pc, r_dates>>
           [] out = "raise" ->
                /\ p_pc' = "raised"
                /\ p_exc' = "Exception"
                /\ UNCHANGED <<p_df, r_pc, r_dates>>
           [] out = "frame" ->
                /\ p_df' = NewFrame
                /\ p_pc' = "rotation"
                /\ r_pc' = "idle"
                /\ r_dates' = promo_date_list(p_end)
                /\ UNCHANGED p_exc
    /\ UNCHANGED <<p_end, r_list, r_n, r_k, r_df, r_exc, r_bucket, r_start>>
    /\ UNCHANGED <<job_vars, run_vars, fetch_vars, avc_vars, dates_vars,
                   loop_vars, discovery_vars, walmart_vars, builder_vars>>

\* an exception of the rotation is not caught
PromoRotationRaised ==
    /\ p_pc = "rotation"
    /\ r_pc = "raised"
    /\ p_pc' = "raised"
    /\ p_exc' = r_exc
    /\ UNCHANGED <<p_end, p_df>>
    /\ UNCHANGED outside_promo

\* copy_dataframe_as_csv_into_s3_bucket(df, [start_date.split("T")[0],
\* end_date.split("T")[0]], ...)
PromoUpload ==
    /\ p_pc = "rotation"
    /\ r_pc = "returned"
    /\ \E ok \in BOOLEAN :
         IF ok
         THEN /\ r_bucket' = put_object(r_bucket,
                                        csv_key(<<"start", split_T(p_end)>>), p_df)
              /\ p_pc' = "returned"
              /\ UNCHANGED p_exc
         ELSE /\ p_pc' = "raised"
              /\ p_exc' = "ClientError"
              /\ UNCHANGED r_bucket
    /\ UNCHANGED <<p_end, p_df, r_pc, r_dates, r_list, r_n, r_k, r_df, r_exc,
                   r_start>>
    /\ UNCHANGED <<job_vars, run_vars, fetch_vars, avc_vars, dates_vars,
                   loop_vars, discovery_vars, walmart_vars, builder_vars>>

NextPromo ==
    \/ PromoGenerate
    \/ RotList
    \/ RotRead
    \/ RotPut
    \/ RotDelete
    \/ RotReturn
    \/ PromoRotationRaised
    \/ PromoUpload

SpecPromo == InitPromo /\ [][NextPromo]_vars

-----------------------------------------------------------------------------
(* The Walmart main with --start_date and --end_date: one process_report per  *)
(* day.  Dates are day numbers; 0 stands for a --date that is 'None'.         *)

\* the step of process_report that fails ("none": none does)
ProcessSteps == {"none", "config", "signature", "http", "download", "upload"}

\* the exception the failing step raises inside process_report
process_step_error(st) ==
    CASE st = "config" -> "Exception"
      [] st = "signature" -> "CalledProcessError"
      [] st = "http" -> "HTTPError"
      [] st = "download" -> "RequestException"
      [] st = "upload" -> "ClientError"
      [] OTHER -> "none"

\* the except clause that catches the failure of a step: the one around the
\* load of the report configuration, the one around signature, request and
\* URL loop, or the outermost one; each logs and returns
process_report_except(st) ==
    CASE st = "config" -> "return"
      [] st \in {"signature", "http", "download", "upload"} -> "return"
      [] OTHER -> "return"

\* a process_report that lets the errors of the vendor calls through
process_report_reraising(st) ==
    IF st \in {"http", "download", "upload"} THEN process_step_error(st) ELSE "none"

\* what process_report lets out to its caller
process_report(st) ==
    IF st = "none" \/ process_report_except(st) = "return"
    THEN "none"
    ELSE process_step_error(st)

WalmartStart ==
    /\ w_pc = "args"
    /\ w_args \in [date : 0..MaxWDay, start_date : 1..MaxWDay, end_date : 1..MaxWDay]
    /\ w_start = 0
    /\ w_end = 0
    /\ w_cur = 0
    /\ w_calls = <<>>
    /\ w_exc = "none"

InitWalmart ==
    /\ WalmartStart
    /\ JobIdle
    /\ RunIdle
    /\ FetchIdle
    /\ RotationIdle
    /\ AvcIdle
    /\ BuilderIdle
    /\ DiscoveryIdle
    /\ PromoIdle
    /\ LoopIdle
    /\ DatesIdle

\* the dates are parsed; start_date > end_date logs and returns
WalmartParse ==
    /\ w_pc = "args"
    /\ LET sd == IF w_args.date # 0 THEN w_args.date ELSE w_args.start_date
           ed == IF w_args.date # 0 THEN w_args.date ELSE w_args.end_date
       IN  /\ w_start' = sd
           /\ w_end' = ed
           /\ IF sd > ed
              THEN w_pc' = "returned" /\ UNCHANGED w_cur
              ELSE w_pc' = "loop" /\ w_cur' = sd
    /\ UNCHANGED <<w_args, w_calls, w_exc>>
    /\ UNCHANGED outside_walmart

\* one pass of `while current_date <= end_date`
WalmartProcess ==
    /\ w_pc = "loop"
    /\ w_cur <= w_end
    /\ \E st \in ProcessSteps :
         /\ w_calls' = Append(w_calls, [date |-> w_cur, failed |-> st])
         /\ IF process_report(st) = "none"
            THEN /\ w_cur' = w_cur + 1
                 /\ UNCHANGED <<w_pc, w_exc>>
            ELSE /\ w_pc' = "raised"
                 /\ w_exc' = process_report(st)
                 /\ UNCHANGED w_cur
    /\ UNCHANGED <<w_args, w_start, w_end>>
    /\ UNCHANGED outside_walmart

\* current_date is past end_date
WalmartEnd ==
    /\ w_pc = "loop"
    /\ w_cur > w_end
    /\ w_pc' = "returned"
    /\ UNCHANGED <<w_args, w_start, w_end, w_cur, w_calls, w_exc>>
    /\ UNCHANGED outside_walmart

NextWalmart ==
    \/ WalmartParse
    \/ WalmartProcess
    \/ WalmartEnd

SpecWalmart == InitWalmart /\ [][NextWalmart]_vars

-----------------------------------------------------------------------------
(* raw_dataframe_builder for the general tables, reportPeriod DAY, without    *)
(* backfilling_start_date.  Dates are day numbers, column names numbers.      *)

\* pipeline_config['csv_column_names']
csv_column_names == <<1, 2>>

\* None
NoFrame == [kind |-> "none", columns |-> <<>>]

\* generate_raw_dataframe raises instead of returning
Raises == [kind |-> "raise", columns |-> <<>>]

\* the frames a report may give: its columns in the order of the report
Frames == {[kind |-> "frame", columns |-> c] : c \in {<<1, 2>>, <<2, 1>>, <<1, 3>>}}

\* sorted(list(df.columns))
sorted_columns(df) == SortSeq(df.columns, LAMBDA x, y : x < y)

\* sorted(list(S))
sorted_list(S) ==
    [i \in 1..Cardinality(S) |->
        CHOOSE d \in S : Cardinality({x \in S : x < d}) = i - 1]

\* [end_date - i days for i in range(lookback_period)]
generate_date_list_to_extract(last_available_date, lookback_period) ==
    [i \in 1..lookback_period |-> last_available_date - (i - 1)]

\* DAY: each date becomes the range [date, date]
adequate_date_list_for_requests(dates) ==
    [i \in 1..Len(dates) |-> <<dates[i], dates[i]>>]

\* the end date of the run and the dates the bucket may hold objects for
BuilderEndDate == MaxLookback + 1
BuilderDates == (BuilderEndDate - MaxLookback + 1)..BuilderEndDate

\* what the bucket holds for one date of the table
DateKinds == {"nothing", "csv", "parquet", "xlsx"}

\* the content of a CSV written by an earlier run
EarlierCsv == [kind |-> "frame", columns |-> csv_column_names]

\* a bucket: per date nothing, <table>_<date>.csv, processed/<table>_<date>.parquet
\* or <table>_<date>.xlsx; another table has a CSV for every date
BuilderBucket(kinds) ==
    LET keys == {S3Key("avc", "US", "T2", "", d, "csv") : d \in BuilderDates}
                  \cup {S3Key("avc", "US", "T", "", d, "csv") :
                          d \in {x \in BuilderDates : kinds[x] = "csv"}}
                  \cup {S3Key("avc", "US", "T", "processed", d, "parquet") :
                          d \in {x \in BuilderDates : kinds[x] = "parquet"}}
                  \cup {S3Key("avc", "US", "T", "", d, "xlsx") :
                          d \in {x \in BuilderDates : kinds[x] = "xlsx"}}
    IN  [k \in keys |-> EarlierCsv]

BuilderStart ==
    /\ b_pc = "list"
    /\ b_end = BuilderEndDate
    /\ b_lookback \in 1..MaxLookback
    /\ b_report \in {NoFrame} \cup Frames
    /\ b_list = <<>>
    /\ b_i = 0
    /\ b_df = NoFrame
    /\ b_requests = <<>>
    /\ b_exc = "none"
    /\ b_store \in {BuilderBucket(kinds) : kinds \in [BuilderDates -> DateKinds]}
    /\ b_store0 = b_store

InitBuilder ==
    /\ BuilderStart
    /\ JobIdle
    /\ RunIdle
    /\ FetchIdle
    /\ RotationIdle
    /\ AvcIdle
    /\ DiscoveryIdle
    /\ PromoIdle
    /\ WalmartIdle
    /\ LoopIdle
    /\ DatesIdle

\* lookback window minus the dates already in the bucket, sorted, as ranges
BuilderList ==
    /\ b_pc = "list"
    /\ LET lookback_date_list == generate_date_list_to_extract(b_end, b_lookback)
           already_in_s3_date_list ==
               get_all_available_dates_for_one_table_in_s3(b_store, "avc", "T")
           dates_to_extract ==
               sorted_list({lookback_date_list[i] : i \in 1..Len(lookback_date_list)}
                             \ already_in_s3_date_list)
       IN  b_list' = adequate_date_list_for_requests(dates_to_extract)
    /\ b_pc' = "loop"
    /\ UNCHANGED <<b_end, b_lookback, b_report, b_i, b_df, b_requests, b_exc,
                   b_store, b_store0>>
    /\ UNCHANGED outside_builder

\* the rest of the loop body once df is there: None is skipped, columns are
\* checked, the CSV is uploaded
BuilderCheckUpload(date_range, df) ==
    /\ b_df' = df
    /\ IF df = NoFrame
       THEN /\ b_i' = b_i + 1
            /\ UNCHANGED <<b_pc, b_exc, b_store>>
       ELSE IF csv_column_names # sorted_columns(df)
       THEN /\ b_pc' = "raised"
            /\ b_exc' = "Exception"
            /\ UNCHANGED <<b_i, b_store>>
       ELSE \E ok \in BOOLEAN :
              IF ok
              THEN /\ b_store' = put_object(b_store, csv_key(date_range),
                                            [df EXCEPT !.columns = sorted_columns(df)])
                   /\ b_i' = b_i + 1
                   /\ UNCHANGED <<b_pc, b_exc>>
              ELSE /\ b_pc' = "raised"
                   /\ b_exc' = "ClientError"
                   /\ UNCHANGED <<b_i, b_store>>

\* one pass of `for date_range in date_list`
BuilderDate ==
    /\ b_pc = "loop"
    /\ b_i < Len(b_list)
    /\ LET date_range == b_list[b_i + 1]
       IN  IF date_range[2] = b_end /\ b_report # NoFrame
           THEN /\ BuilderCheckUpload(date_range, b_report)
                /\ UNCHANGED b_requests
           ELSE /\ b_requests' = Append(b_requests, date_range)
                /\ \E out \in {NoFrame, Raises} \cup Frames :
                     IF out = Raises
                     THEN /\ b_pc' = "raised"
                          /\ b_exc' = "Exception"
                          /\ UNCHANGED <<b_i, b_df, b_store>>
                     ELSE BuilderCheckUpload(date_range, out)
    /\ UNCHANGED <<b_end, b_lookback, b_report, b_list, b_store0>>
    /\ UNCHANGED outside_builder

\* date_list is exhausted
BuilderEnd ==
    /\ b_pc = "loop"
    /\ b_i = Len(b_list)
    /\ b_pc' = "returned"
    /\ UNCHANGED <<b_end, b_lookback, b_report, b_list, b_i, b_df, b_requests,
                   b_exc, b_store, b_store0>>
    /\ UNCHANGED outside_builder

NextBuilder ==
    \/ BuilderList
    \/ BuilderDate
    \/ BuilderEnd

SpecBuilder == InitBuilder /\ [][NextBuilder]_vars

-----------------------------------------------------------------------------
(* Properties.  The tables below restate, in the claims' own words, which  *)
(* status strings and budgets each poller has; they do not use the model's *)
(* definitions of them.                                                    *)

Budget(v) == CASE v = "ads" -> 15 [] v = "amc" -> 10 [] v = "instacart" -> 15

SuccessWord(v) ==
    CASE v = "ads" -> "COMPLETED" [] v = "amc" -> "SUCCEEDED" [] v = "instacart" -> "completed"

FailureWords(v) == IF v = "amc" THEN {"FAILURE", "REJECTED"} ELSE {"FAILURE"}

\* the poller of `vendor` has been answered a status it treats as terminal
TerminalSeen ==
    /\ vendor \in Pollers
    /\ resp.http = "ok"
    /\ resp.status \in {SuccessWord(vendor)} \cup FailureWords(vendor)

\* C1: in each bounded poller the number of status GETs for one job never
\* exceeds max_retries (15 for Amazon Ads, 10 for AMC, 15 for Instacart);
\* when all of them were answered with a non-terminal status the next step
\* raises TimeoutError, after exactly max_retries polls, and no URL list
\* has been returned.
C1_PollBudget ==
    /\ [](vendor \in Pollers => polls <= Budget(vendor))
    /\ []((vendor \in Pollers /\ exc = "TimeoutError")
            => (polls = Budget(vendor) /\ ret = NoReturn /\ ~TerminalSeen))
    /\ [][(vendor \in Pollers /\ pc = "poll" /\ polls = Budget(vendor))
            => (exc' = "TimeoutError" /\ polls' = polls /\ ret' = NoReturn)]_vars

C1_Witness ==
    /\ vendor = "amc"
    /\ pc = "raised"
    /\ exc = "TimeoutError"
    /\ polls = 10
    /\ sleeps = 10

\* C2: once a status poll has returned a terminal status (the success word,
\* FAILURE, or REJECTED for AMC) no further status GET and no further sleep
\* happen for that job, and fetch_report_url has left with exactly one of:
\* a URL list, the AMC failure marker, an exception.
C2_TerminalStops ==
    /\ [][TerminalSeen => (polls' = polls /\ sleeps' = sleeps /\ ret' = ret)]_vars
    /\ [](TerminalSeen =>
            /\ pc # "poll"
            /\ sleeps = polls - 1
            /\ \/ ret.kind = "urls" /\ raised_at # "poll"
               \/ ret.kind = "marker" /\ vendor = "amc" /\ raised_at # "poll"
               \/ ret.kind = "none" /\ raised_at = "poll")

C2_Witness ==
    /\ TerminalSeen
    /\ vendor = "ads"
    /\ resp.status = "FAILURE"
    /\ polls = 4
    /\ pc = "raised"

\* the first three statuses the status endpoint answered
First3 == IF Len(hist) >= 3 THEN SubSeq(hist, 1, 3) ELSE <<>>

UrlU == Field("str", "U.gz", <<>>)

\* C3, as stated: when the status endpoint answers IN_PROGRESS twice and
\* then SUCCEEDED carrying url=U, the poller (AMC, Amazon Ads) returns
\* exactly [U], the URL of the success response, after exactly 3 polls.
C3_Original ==
    (/\ vendor \in {"amc", "ads"}
     /\ First3 = <<"IN_PROGRESS", "IN_PROGRESS", "SUCCEEDED">>
     /\ resp = Answer("SUCCEEDED", UrlU))
    => (polls = 3 /\ ret = [kind |-> "urls", urls |-> <<"U.gz">>])

\* C3, amended: after IN_PROGRESS twice and then the poller's own success
\* word, the poller returns a one-element list after exactly 3 polls and
\* polls no more.  Amazon Ads (success word COMPLETED) returns [U], the url
\* of the response; AMC (success word SUCCEEDED) returns the downloadUrls
\* endpoint it built from the job id, whatever url the response carries;
\* Amazon Ads does not know SUCCEEDED and returns nothing on it.
C3_SuccessAfterThreePolls ==
    /\ (/\ vendor = "ads"
        /\ First3 = <<"IN_PROGRESS", "IN_PROGRESS", "COMPLETED">>
        /\ resp = Answer("COMPLETED", UrlU))
       => (polls = 3 /\ sleeps = 2 /\ ret = [kind |-> "urls", urls |-> <<"U.gz">>])
    /\ (/\ vendor = "amc"
        /\ First3 = <<"IN_PROGRESS", "IN_PROGRESS", "SUCCEEDED">>)
       => (/\ polls = 3
           /\ sleeps = 2
           /\ ret = [kind |-> "urls",
                     urls |-> <<"amc/workflowExecutions/R1/downloadUrls">>])
    /\ (/\ vendor = "ads"
        /\ First3 = <<"IN_PROGRESS", "IN_PROGRESS", "SUCCEEDED">>)
       => (ret = NoReturn /\ polls >= 3 /\ pc \in {"poll", "raised"})

C3_Witness ==
    /\ vendor = "ads"
    /\ First3 = <<"IN_PROGRESS", "IN_PROGRESS", "COMPLETED">>
    /\ resp = Answer("COMPLETED", UrlU)
    /\ ret.urls = <<"U.gz">>
    /\ pc = "fetch"

\* C4: under the raise policy (Amazon Ads, Instacart), when the vendor
\* reports IN_PROGRESS and then a failed job, fetch_report_data is never
\* called for that job and the call ends in an error, never in a normal
\* return.  The job's status is final: FAILURE raises at the second poll;
\* FAILED is polled until the budget is spent and TimeoutError is raised.
C4_FailureNeverMaterializes ==
    (/\ vendor \in {"ads", "instacart"}
     /\ Len(hist) >= 2
     /\ hist[1] = "IN_PROGRESS"
     /\ hist[2] \in {"FAILED", "FAILURE"})
    => /\ mat_calls = 0
       /\ downloads = 0
       /\ uploads = 0
       /\ ret = NoReturn
       /\ pc \in {"poll", "raised"}
       /\ pc = "raised" => (raised_at = "poll" /\ exc \in {"Exception", "TimeoutError", "HTTPError"})
       /\ hist[2] = "FAILURE" => (pc = "raised" /\ exc = "Exception" /\ polls = 2)
       /\ (hist[2] = "FAILED" /\ polls = 15 /\ resp.http = "ok")
             => ~(ENABLED Poll) /\ (pc = "poll" => ENABLED Timeout)

C4_Witness ==
    /\ vendor = "instacart"
    /\ Len(hist) >= 2
    /\ hist[1] = "IN_PROGRESS"
    /\ hist[2] = "FAILED"
    /\ pc = "raised"
    /\ exc = "TimeoutError"
    /\ mat_calls = 0

\* the step is a status GET of a bounded poller that was answered at HTTP level
PollAnswered ==
    /\ vendor \in Pollers
    /\ pc = "poll"
    /\ polls' = polls + 1
    /\ resp'.http = "ok"

\* the step is a status GET of get_report_from_avc whose reply carried no
\* errors list
AvcAnswered ==
    /\ vendor = "avc"
    /\ pc = "avc_status"
    /\ polls' = polls + 1
    /\ quota' = quota
    /\ ~(exc' = "Exception" /\ raised_at' = "poll")

Unrecognised == {"FAILED", "CANCELLED", "FATAL", NoStatus}

\* C5 as stated: a status answer that is none of the vendor's in-progress,
\* success or failure words (FAILED, CANCELLED, FATAL, a missing status)
\* makes the poller raise an error.
C5_Original ==
    [][((PollAnswered \/ AvcAnswered) /\ resp'.status \in Unrecognised)
          => (pc' = "raised" /\ exc' # "none")]_vars

\* C5: every status answer gets exactly one treatment, decided by the status
\* string alone.  Amazon Ads, AMC and Instacart treat every status other than
\* their success and failure words (FAILED, CANCELLED, FATAL and a missing
\* status included) as still pending: retries += 1, sleep, poll again, with
\* no error raised.  The AVC poll treats IN_QUEUE and IN_PROGRESS as pending,
\* raises KeyError on a missing processingStatus, and takes any other status
\* as the end of the job, going on to the report document.
C5_StatusTreatment ==
    [][/\ PollAnswered =>
            LET s == resp'.status
            IN  /\ s \notin ({SuccessWord(vendor)} \cup FailureWords(vendor))
                     => /\ pc' = "poll"
                        /\ exc' = "none"
                        /\ retries' = retries + 1
                        /\ sleeps' = sleeps + 1
                        /\ ret' = NoReturn
                /\ s = SuccessWord(vendor)
                     => /\ pc' \in {"fetch", "resolve", "raised"}
                        /\ retries' = retries
                        /\ sleeps' = sleeps
                        /\ pc' = "raised" => exc' \in {"Exception", "TypeError"}
                /\ (s \in FailureWords(vendor) /\ vendor # "amc")
                     => (pc' = "raised" /\ exc' = "Exception" /\ sleeps' = sleeps)
                /\ (s \in FailureWords(vendor) /\ vendor = "amc")
                     => (pc' = "record" /\ exc' = "none" /\ sleeps' = sleeps)
       /\ AvcAnswered =>
            LET s == resp'.status
            IN  /\ s \in {"IN_QUEUE", "IN_PROGRESS"}
                     => (pc' = "avc_status" /\ exc' = "none" /\ sleeps' = sleeps + 1)
                /\ s = NoStatus
                     => (pc' = "raised" /\ exc' = "KeyError" /\ raised_at' = "poll")
                /\ s \notin {"IN_QUEUE", "IN_PROGRESS", NoStatus}
                     => /\ sleeps' = sleeps
                        /\ \/ pc' = "avc_document" /\ exc' = "none"
                           \/ pc' = "raised" /\ exc' = "KeyError"
                                /\ raised_at' = "document"]_vars

C5_Witness ==
    /\ vendor = "ads"
    /\ resp = Answer("CANCELLED", Missing)
    /\ pc = "poll"
    /\ exc = "none"
    /\ retries = 2
    /\ polls = 2
    /\ sleeps = 2

\* an empty or missing URL field of a status response
EmptyUrl == {Missing, Field("list", "", <<>>), Field("str", "", <<>>)}

\* C6: when the vendor reports success with an empty or missing URL field,
\* fetch_report_url of Amazon Ads and of Instacart raises an error instead
\* of returning an empty result; AMC's process_report_config raises when
\* the downloadUrls answer is empty or missing; nothing is uploaded.
C6_Statement ==
    /\ (/\ vendor \in {"ads", "instacart"}
        /\ resp.http = "ok"
        /\ resp.status = SuccessWord(vendor)
        /\ resp.url \in EmptyUrl)
       => (pc = "raised" /\ raised_at = "poll" /\ ret = NoReturn /\ uploads = 0)
    /\ (/\ vendor = "amc"
        /\ \/ resolved.kind = "no_field"
           \/ resolved.kind = "ok" /\ resolved.urls = <<>>)
       => (pc = "raised" /\ raised_at = "resolve" /\ uploads = 0)

\* the AMC poller has been answered one of its failure words
AmcFailureSeen ==
    /\ vendor = "amc"
    /\ resp.http = "ok"
    /\ resp.status \in {"FAILURE", "REJECTED"}

C8_Original == posts <= 1

\* C8: create_report_request of Amazon Ads, AMC and Instacart sends at most
\* one creation POST per call (none when the report configuration is
\* missing) and never a second one.  get_report_from_avc
\* sends its creation POST through api_call_with_delay, which sends it again
\* after every QuotaExceeded answer; any other answer ends the creation, and
\* no POST is sent once the creation step is over.
C8_CreationPosts ==
    /\ [](vendor \in Pollers =>
            /\ posts <= 1
            /\ (pc # "create" /\ raised_at # "create") => posts = 1)
    /\ [](vendor = "avc" =>
            /\ pc = "create" => posts = quota
            /\ pc \in {"avc_status", "avc_document", "returned"} => posts >= 1)
    /\ [][posts' # posts => (pc = "create" /\ posts' = posts + 1)]_vars
    /\ [][(vendor = "avc" /\ pc = "create" /\ posts' # posts /\ quota' = quota)
             => pc' # "create"]_vars

C8_Witness ==
    /\ vendor = "avc"
    /\ posts = 3
    /\ quota = 2
    /\ pc = "avc_status"
    /\ report_id = "R1"

\* C9: an HTTP error on a status GET inside the polling loop (attempt k)
\* propagates to the caller at that attempt: exactly k polls have been made
\* (k - 1 of them slept on), no sleep and no further poll follow, and the
\* job has no download and no upload.
C9_HttpErrorPropagates ==
    (vendor \in Pollers /\ resp.http = "error")
    => /\ pc = "raised"
       /\ exc = "HTTPError"
       /\ raised_at = "poll"
       /\ polls = retries + 1
       /\ sleeps = retries
       /\ ret = NoReturn
       /\ mat_calls = 0
       /\ downloads = 0
       /\ uploads = 0
       /\ log_uploads = 0
       /\ ~(ENABLED Poll)

C9_Witness ==
    /\ vendor = "amc"
    /\ resp.http = "error"
    /\ polls = 3
    /\ sleeps = 2
    /\ pc = "raised"

\* the step is a status GET of a bounded poller that failed at HTTP level
PollFailed ==
    /\ vendor \in Pollers
    /\ pc = "poll"
    /\ polls' = polls + 1
    /\ resp'.http = "error"

\* C10 as stated: a transient HTTP failure on a status poll is retried
\* within the loop: while the attempt budget is not exhausted the loop
\* sleeps and proceeds to the next attempt.
C10_Original ==
    [][(PollFailed /\ retries + 1 < Budget(vendor))
          => (pc' = "poll" /\ sleeps' = sleeps + 1)]_vars

\* C10: an HTTP failure on a status poll is not retried by the polling
\* loop.  With attempt budget left or not, fetch_report_url logs the
\* RequestException and re-raises it: the loop takes no sleep, consumes no
\* retry and makes no later attempt.
C10_HttpErrorNotRetried ==
    /\ [][PollFailed =>
            /\ pc' = "raised"
            /\ exc' = "HTTPError"
            /\ sleeps' = sleeps
            /\ retries' = retries
            /\ retries < Budget(vendor)]_vars
    /\ [][(vendor \in Pollers /\ resp.http = "error") => polls' = polls]_vars

C10_Witness ==
    /\ vendor = "instacart"
    /\ resp.http = "error"
    /\ pc = "raised"
    /\ polls = 1
    /\ retries = 0
    /\ sleeps = 0

\* the job of the k-th date range of the run did not end in the vendor's
\* success status
RangeFailed(k) ==
    \/ run_ends[k].how = "error"
    \/ run_ends[k].what # SuccessWord(run_vendor)

\* the k-th date range ended in a status AMC records instead of raising
RangeRecorded(k) ==
    /\ run_vendor = "amc"
    /\ run_ends[k].how = "status"
    /\ run_ends[k].what \in {"FAILURE", "REJECTED"}

\* a row of the k-th date range is in the sequence of rows
HasRow(rows, k) == \E n \in 1..Len(rows) : rows[n].date = date_list[k][1]

\* C11 as stated: in a multi-date backfill a failure of one date range, a
\* poll timeout included, is caught and recorded in the persisted failure
\* record, and every later date range of the run is still processed.
C11_Original ==
    run_pc # "loop"
    => /\ run_pc = "done"
       /\ run_i = Len(date_list)
       /\ \A k \in 1..Len(run_ends) :
            RangeFailed(k) => (run_sink_log.present /\ HasRow(run_sink_log.rows, k))

\* C11: in the loops over date ranges of the Amazon Ads and AMC mains only
\* an AMC workflow that ends FAILURE or REJECTED is recorded (a row in the
\* failure log, which is uploaded) with the run going on to the next date
\* range.  Every other failure of a date range (an HTTP or configuration
\* error, a failure status of Amazon Ads, a poll timeout) is logged and
\* re-raised by process_report_config and by main: it ends the run, nothing
\* is written to the failure record for it, and the later date ranges are
\* not processed.
C11_FailureEndsRun ==
    /\ [](\A k \in 1..Len(run_ends) :
            /\ RangeRecorded(k)
                 => (run_sink_log.present /\ HasRow(run_sink_log.rows, k))
            /\ (RangeFailed(k) /\ ~RangeRecorded(k))
                 => /\ run_pc = "raised"
                    /\ run_exc # "none"
                    /\ k = run_i
                    /\ ~HasRow(run_log, k)
                    /\ ~HasRow(run_sink_log.rows, k)
                    /\ key_date(run_vendor, date_list[k]) \notin run_reports)
    /\ [](run_pc = "done" => run_i = Len(date_list))
    /\ [](run_pc = "raised" => RangeFailed(run_i))
    /\ [][run_pc = "raised" => UNCHANGED run_vars]_vars

C11_Witness ==
    /\ run_vendor = "amc"
    /\ Len(date_list) = 3
    /\ run_i = 2
    /\ run_ends[1].what = "REJECTED"
    /\ run_ends[2].what = "IN_PROGRESS"
    /\ run_pc = "raised"
    /\ run_exc = "TimeoutError"
    /\ Len(run_log) = 1

\* the date ranges processed so far whose failure AMC recorded
Recorded == {k \in 1..Len(run_ends) : RangeRecorded(k)}

\* the rows of the first sequence are the first rows of the second
IsPrefix(a, b) == Len(a) <= Len(b) /\ \A n \in 1..Len(a) : b[n] = a[n]

\* C19 as stated: in an AMC run over several date ranges the failed-workflow
\* log is only appended to (earlier rows are never removed or changed) and
\* it is uploaded to the storage sink exactly once per run.
C19_Original ==
    /\ [][IsPrefix(run_log, run_log')]_vars
    /\ [](run_vendor = "amc" /\ run_pc # "loop" => run_flushes = 1)

\* C19: in an AMC run the failed-workflow log is only appended to (earlier
\* rows are never removed or changed), one row per date range whose
\* workflow ended FAILURE or REJECTED, and it is uploaded inside
\* process_report_config once for each such date range, each time with all
\* rows accumulated so far; a run without such a date range uploads no log.
C19_LogFlushedPerFailure ==
    /\ [][IsPrefix(run_log, run_log')]_vars
    /\ [](/\ Len(run_log) = Cardinality(Recorded)
          /\ run_flushes = Cardinality(Recorded)
          /\ \A k \in Recorded : HasRow(run_log, k)
          /\ run_flushes > 0 => run_sink_log = [present |-> TRUE, rows |-> run_log])
    /\ [][run_flushes' # run_flushes
            => /\ run_flushes' = run_flushes + 1
               /\ run_log' # run_log
               /\ run_sink_log'.rows = run_log']_vars

C19_Witness ==
    /\ run_vendor = "amc"
    /\ run_pc = "done"
    /\ Len(date_list) = 3
    /\ run_flushes = 2
    /\ Len(run_log) = 2
    /\ run_sink_log.rows = run_log
    /\ run_log[1].date = 1
    /\ run_log[2].date = 3

FetchEnded == f_pc \in {"returned", "raised"}

\* C12: after fetch_report_data finishes, whether it returns normally or
\* raises at any step (download, decompression, JSON / ORC decoding, CSV
\* conversion, upload), none of the temporary files it created (downloaded
\* file, decompressed file, generated CSV) still exists.
C12_Statement == FetchEnded => (f_created \cap f_files = {})

\* the second call has ended like the first, with the same target and
\* logical date
SameTargetTwice ==
    /\ f_pc = "returned"
    /\ f_first.result = "returned"
    /\ f_first.args.report_type = f_args.report_type
    /\ f_first.args.template = f_args.template
    /\ f_first.args.date = f_args.date

\* C15: the destination key depends only on (path template, report_type,
\* country_code, logical date): running fetch_report_data twice with the
\* same target and logical date writes the same single key, the second run
\* overwriting the first, so exactly one object is there; with the same URL
\* and identical downloaded bytes its content is the same after both runs.
C15_Idempotent ==
    SameTargetTwice
    => /\ DOMAIN f_store = DOMAIN f_first.store
       /\ Cardinality(DOMAIN f_store) = 1
       /\ f_puts = 1
       /\ (f_first.args.url = f_args.url /\ f_first.body = f_body)
             => f_store = f_first.store

C15_Witness ==
    /\ SameTargetTwice
    /\ f_first.args.url = Url(".orc", "")
    /\ f_args.url = Url(".orc", "")
    /\ f_first.body = Body("b", "ok")
    /\ f_body = Body("b", "ok")
    /\ f_calls = 2
    /\ Cardinality(DOMAIN f_store) = 1

\* the content a complete pipeline produces from the downloaded body
Finished(ext, body) ==
    /\ body # NoBody
    /\ ext \in {".gz", ".orc"} => body.form = "ok"

\* C16: no partial artifact reaches the destination key: fetch_report_data
\* writes to the bucket at most once per call, one key, and only after
\* download, decompression / decoding and CSV conversion have all succeeded;
\* when a step fails, the bucket is exactly as it was when the call started.
C16_NoPartialArtifact ==
    /\ [](f_puts <= 1)
    /\ []((f_puts = 0 \/ f_pc = "raised") => f_store = f_before)
    /\ [][f_store' # f_store
            => /\ f_pc = "step"
               /\ f_puts = 0
               /\ f_puts' = 1
               /\ Finished(f_ext, f_body)
               /\ \E k \in DOMAIN f_store' :
                    /\ f_store'[k] = Content(IF f_ext = ".csv" THEN "raw" ELSE "csv",
                                             f_body)
                    /\ \A o \in DOMAIN f_store' \ {k} :
                         o \in DOMAIN f_store /\ f_store'[o] = f_store[o]
                    /\ DOMAIN f_store \subseteq DOMAIN f_store']_vars

C16_Witness ==
    /\ f_calls = 2
    /\ f_first.result = "returned"
    /\ f_first.args = f_args
    /\ f_args.url = Url(".gz", "")
    /\ f_pc = "raised"
    /\ f_exc = "JSONDecodeError"
    /\ f_store = f_first.store
    /\ Cardinality(DOMAIN f_store) = 1

\* the URL's path ends in .orc, .gz or .csv, in any letter case
Recognised(u) == u.suffix \in {".orc", ".gz", ".GZ", ".csv"}

Listed == {r_list[n] : n \in 1..Len(r_list)}

\* processed/<same name>.parquet of a CSV of the table
CopyKey(k) == [k EXCEPT !.folder = "processed", !.ext = "parquet"]

\* the store holds the Parquet copy of the CSV k whose content was c
HasCopy(store, k, c) ==
    /\ CopyKey(k) \in DOMAIN store
    /\ store[CopyKey(k)].fmt = "parquet"
    /\ store[CopyKey(k)].data = c.data

\* the CSV k is in the bucket as it was when the call started
HasSource(k) == k \in DOMAIN r_bucket /\ r_bucket[k] = r_start[k]

\* C13: rotation is convert-then-delete. At every point the data of each file
\* of file_list is in the bucket as the CSV, as the Parquet copy under
\* processed/, or both; an object leaves the bucket only when its Parquet copy
\* is already there; and when the call raises (reading, converting, writing or
\* deleting failed for a file) the CSV of that file and of every file not yet
\* visited is still present and unchanged.
C13_ConvertThenDelete ==
    /\ [](\A k \in Listed : HasSource(k) \/ HasCopy(r_bucket, k, r_start[k]))
    /\ [][\A k \in DOMAIN r_bucket \ DOMAIN r_bucket' :
            HasCopy(r_bucket, k, r_bucket[k])]_vars
    /\ [](r_pc = "raised" =>
            \A n \in (r_n + 1)..Len(r_list) : HasSource(r_list[n]))

\* the first file was rotated, the second one could not be read: the first is
\* there as Parquet only, the second as CSV only
C13_Witness ==
    /\ r_pc = "raised"
    /\ r_exc = "EmptyDataError"
    /\ Len(r_list) = 2
    /\ r_n = 1
    /\ r_list[1] \notin DOMAIN r_bucket
    /\ HasCopy(r_bucket, r_list[1], r_start[r_list[1]])
    /\ HasSource(r_list[2])
    /\ ~HasCopy(r_bucket, r_list[2], r_start[r_list[2]])

\* a .csv object directly under the prefix of table T of source avc and
\* country US whose trailing date is not in date_list
Rotates(k) ==
    /\ k.source = "avc"
    /\ k.country = "US"
    /\ k.table = "T"
    /\ k.folder = ""
    /\ k.ext = "csv"
    /\ k.name[2] \notin r_dates

Rotated == {k \in DOMAIN r_start : Rotates(k)}

\* the keys the rotated CSVs become
Targets == {CopyKey(k) : k \in Rotated}

QuotaFirst(reply) == reply.has_errors /\ reply.codes[1] = "QuotaExceeded"

\* get_report_from_avc is inside an api_call_with_delay call
InCall == a_pc \in {"create", "status", "document"}

\* a step of get_report_from_avc: one request sent through
\* api_call_with_delay and its reply handled (the vendor did not move)
ApiStep == InCall /\ a_throttled' = a_throttled /\ a_job' = a_job

\* the api_call_with_delay call in progress ended with this step
CallEnded == a_attempts' = 0

\* C18: api_call_with_delay retries forever, at a fixed delay, on one error
\* code. A reply whose first error is QuotaExceeded keeps the call going: it
\* sleeps 10 seconds, raises nothing, and the next request is the same one;
\* any other reply ends the call: a reply with errors raises Exception at
\* once, and only a reply without an 'errors' field is returned. No number of
\* attempts ends the call: while the vendor keeps answering QuotaExceeded the
\* call can always send again and never ends, and once the vendor stops
\* answering QuotaExceeded every call ends.
C18_RetryForever ==
    /\ [][ApiStep /\ QuotaFirst(a_reply') =>
            /\ ~CallEnded
            /\ a_sleep' = 10
            /\ a_pc' = a_pc
            /\ a_exc' = "none"]_vars
    /\ [][ApiStep /\ QuotaFirst(a_reply) => a_req' = a_req]_vars
    /\ [][ApiStep /\ ~QuotaFirst(a_reply') =>
            /\ CallEnded
            /\ a_sleep' # 10
            /\ (a_reply'.has_errors <=> a_exc' = "Exception")]_vars
    /\ [](InCall => ENABLED AvcStep)
    /\ ([]a_throttled => [](a_pc = "create" /\ a_exc = "none"))
    /\ (<>[]~a_throttled => []<>(a_attempts = 0))

\* the creation POST was answered QuotaExceeded as often as is counted and the
\* call is still going on, 10 seconds after the last answer
C18_Witness ==
    /\ a_pc = "create"
    /\ a_attempts = MaxAttempts
    /\ QuotaFirst(a_reply)
    /\ a_req = "POST reports"
    /\ a_sleep = 10
    /\ a_exc = "none"

\* the statuses the status loop of get_report_from_avc waits on
PendingWords == {"IN_QUEUE", "IN_PROGRESS"}

\* a status GET was answered and processingStatus read with this step
StatusRead == ApiStep /\ a_pc = "status" /\ ~a_reply'.has_errors /\ a_exc' # "KeyError"

\* processingStatus was read and is outside the waited-on set
LoopLeft == a_status \notin PendingWords \cup {"none"}

\* C20: the AVC status poll has no attempt budget. A status GET that reads
\* IN_QUEUE or IN_PROGRESS is followed by a 5 second sleep and another status
\* GET, however many came before; the first status outside that set ends the
\* loop, whatever it is: the next statement is the read of reportDocumentId
\* that opens the report-document step (KeyError there when the answer has
\* none), and no status GET is sent afterwards. The call gets past the loop
\* only after such a status: never while the vendor keeps reporting IN_QUEUE or
\* IN_PROGRESS, and always once the vendor reports another status and answers
\* the requests.
C20_PollUnbounded ==
    /\ [][ApiStep /\ a_pc = "status" /\ ~a_reply'.has_errors
            /\ a_exc' = "none" /\ a_job \in PendingWords =>
            /\ a_pc' = "status"
            /\ a_status' = a_job
            /\ a_sleep' = 5]_vars
    /\ [][ApiStep /\ a_pc = "status" /\ ~a_reply'.has_errors
            /\ a_status' = a_job /\ a_job \notin PendingWords =>
            /\ a_sleep' = 0
            /\ \/ a_pc' = "document" /\ a_exc' = "none"
               \/ a_pc' = "raised" /\ a_exc' = "KeyError" /\ a_at' = "document"]_vars
    /\ [](LoopLeft => a_pc \notin {"create", "status"})
    /\ [][LoopLeft => UNCHANGED <<a_status, a_polls>>]_vars
    /\ [](a_pc \in {"document", "returned"} => LoopLeft)
    /\ [](a_pc = "status" => ENABLED GetReportStatus)
    /\ [](a_exc \in {"none", "Exception", "KeyError"})
    /\ ([](a_job \in PendingWords) => [](a_pc \in {"create", "status", "raised"}))
    /\ (<>[]~a_throttled /\ <>(a_job \notin PendingWords)
          => <>(a_pc \notin {"create", "status"}))

\* after as many re-polls as are counted, a status that is not a success
\* status took the call to the report-document step
C20_Witness ==
    /\ a_polls = MaxAttempts
    /\ a_status = "CANCELLED"
    /\ a_pc = "document"
    /\ a_exc = "none"

\* the intervals of d_out a date lies in
Covering(d) == {i \in 1..Len(d_out) : d_out[i][1] <= d /\ d <= d_out[i][2]}

\* C23: generate_intervals(start, end, n) partitions [start, end] into
\* consecutive intervals in ascending order: every date of the range lies in
\* exactly one interval and no interval reaches outside the range, each
\* interval spans at most n days and all but the last exactly n, each starts
\* the day after the previous one ends, the first starts at start and the
\* last ends at end; the list is empty when start is after end.
C23_IntervalsPartition ==
    d_pc = "intervals" =>
        /\ d_start > d_end => d_out = <<>>
        /\ d_start <= d_end =>
              /\ Len(d_out) >= 1
              /\ d_out[1][1] = d_start
              /\ d_out[Len(d_out)][2] = d_end
        /\ \A d \in d_start..d_end : Cardinality(Covering(d)) = 1
        /\ \A i \in 1..Len(d_out) :
              /\ d_out[i][1] <= d_out[i][2]
              /\ d_out[i][2] - d_out[i][1] + 1 <= d_n
              /\ i < Len(d_out) => d_out[i][2] - d_out[i][1] + 1 = d_n
              /\ i < Len(d_out) => d_out[i + 1][1] = d_out[i][2] + 1
              /\ d_start <= d_out[i][1] /\ d_out[i][2] <= d_end

\* a range cut into a full interval and a shorter last one
C23_Witness ==
    /\ d_pc = "intervals"
    /\ d_n = 3
    /\ d_start = 2
    /\ d_end = 6
    /\ d_out = <<<<2, 4>>, <<5, 6>>>>

\* C24: make_api_calls_daily(start, end) returns one (d, d + 1 day) pair for
\* every date d with start <= d <= end, in ascending order; so a request whose
\* start date equals its end date yields one date range.
C24_Statement ==
    d_pc = "daily" =>
        /\ Len(d_out) = Cardinality({d \in 1..MaxDay : d_start <= d /\ d <= d_end})
        /\ \A i \in 1..Len(d_out) : d_out[i] = <<d_start + i - 1, d_start + i>>
        /\ d_start = d_end => Len(d_out) = 1

\* the job of the k-th date range ended with the vendor's success status
RangeUploaded(k) ==
    /\ run_ends[k].how = "status"
    /\ run_ends[k].what = SuccessWord(run_vendor)

\* C27: within one run, distinct date ranges are written to distinct
\* destination keys whenever the path template holds the year, month and day
\* placeholders. The intervals of Amazon Ads are disjoint and end on
\* different days, the daily ranges of AMC start on different days; with such
\* a template the bucket holds one object per uploaded date range and each
\* still holds what was written for its own range: no range of the run has
\* overwritten the artifact of another.
C27_DistinctKeys ==
    /\ \A i, j \in 1..Len(date_list) :
          i < j =>
            /\ run_vendor = "ads" => date_list[i][2] < date_list[j][1]
            /\ run_vendor = "amc" => date_list[i][1] < date_list[j][1]
    /\ {"year", "month", "day"} \subseteq run_template.holes =>
          /\ \A i \in 1..run_i :
                RangeUploaded(i) =>
                    \E k \in DOMAIN run_store : run_store[k] = date_list[i]
          /\ Cardinality(DOMAIN run_store)
                = Cardinality({i \in 1..run_i : RangeUploaded(i)})

\* a run of three date ranges, all uploaded, left three objects
C27_Witness ==
    /\ {"year", "month", "day"} \subseteq run_template.holes
    /\ run_pc = "done"
    /\ Len(date_list) = 3
    /\ \A i \in 1..3 : RangeUploaded(i)
    /\ Cardinality(DOMAIN run_store) = 3

\* C26: when a job yields several download URLs, fetch_report_data is called
\* once per URL, in list order, each time with the same report key, country
\* code, date and template; every upload goes to the same destination key, so
\* the bucket holds one report object, with the content of the URL uploaded
\* last: after a loop that ran to its end, that of the last URL. A failure on
\* URL k ends the loop there: k calls were made, the URLs 1..k-1 were
\* uploaded, and no call follows.
C26_SameKeyLastWins ==
    /\ [](/\ Len(u_calls) <= Len(u_urls)
          /\ \A i \in 1..Len(u_calls) :
                /\ u_calls[i].url = u_urls[i]
                /\ u_calls[i].report_type = u_calls[1].report_type
                /\ u_calls[i].country_code = u_calls[1].country_code
                /\ u_calls[i].date = u_calls[1].date
                /\ u_calls[i].template = u_calls[1].template)
    /\ [](/\ \A i \in 1..Len(u_puts) :
                u_puts[i].key = u_puts[1].key /\ u_puts[i].url = u_urls[i]
          /\ Cardinality(DOMAIN u_store) <= 1
          /\ \A k \in DOMAIN u_store : u_store[k] = u_puts[Len(u_puts)].url.id)
    /\ [](u_pc \in {"returned", "raised"} /\ u_exc = "none" =>
            /\ Len(u_calls) = Len(u_urls)
            /\ Len(u_puts) = Len(u_urls)
            /\ \E k \in DOMAIN u_store : u_store[k] = u_urls[Len(u_urls)].id)
    /\ [](u_exc # "none" =>
            /\ u_pc \in {"returned", "raised"}
            /\ Len(u_calls) >= 1
            /\ Len(u_puts) = Len(u_calls) - 1)
    /\ [][u_pc # "loop" => UNCHANGED <<u_calls, u_puts, u_store>>]_vars

\* two URLs with different content were both uploaded: one object is left and
\* it holds the content of the second
C26_Witness ==
    /\ u_pc = "returned"
    /\ u_exc = "none"
    /\ Len(u_urls) = 2
    /\ u_urls[1].id # u_urls[2].id
    /\ Len(u_puts) = 2
    /\ Cardinality(DOMAIN u_store) = 1
    /\ \A k \in DOMAIN u_store : u_store[k] = u_urls[2].id

\* what a GET of a download URL can return: the report, or the body of an
\* HTTP error response
BodiesAt(u) ==
    CASE u = "D1" -> {"D1 data", "D1 http error body"}
      [] u = "D2" -> {"D2 data", "D2 http error body"}

\* the downloadUrls resolution GET succeeded with at least one URL
ResolvedSome == resolved.kind = "ok" /\ resolved.urls # <<>>

NotAvailable(r) ==
    \/ r.errorDetails \in {"msg1", "msg2"}
    \/ r.reportRequestError = "market"
    \/ r.data = "empty"

\* C21: the discovery of the latest available date (DAY) first asks for the
\* one-day report of today minus the lookback assumption (4 for sp_inventory);
\* each answer that signals "not available" moves the candidate back exactly
\* one day and is followed by a new request; any other answer with
\* errorDetails raises Exception; the date returned is the first candidate
\* whose report is available, every later date tried was unavailable; no
\* count of steps ends the walk: the function is left only on an answer that
\* does not signal "not available" (or when the request itself raises).
C21_WalkBack ==
    /\ \A i \in 1..Len(v_tried) :
         /\ v_tried[i].start = v_tried[i].end
         /\ v_tried[i].end =
              DiscoveryToday - lookback_days(v_table, v_assume) - (i - 1)
         /\ i < Len(v_tried) => NotAvailable(v_tried[i].reply)
    /\ v_pc = "request" =>
         /\ v_end = DiscoveryToday - lookback_days(v_table, v_assume) - Len(v_tried)
         /\ \A i \in 1..Len(v_tried) : NotAvailable(v_tried[i].reply)
    /\ v_pc \in {"returned", "raised"} =>
         /\ v_tried # <<>>
         /\ ~NotAvailable(v_tried[Len(v_tried)].reply)
    /\ (v_pc \in {"returned", "raised"}
          /\ v_tried[Len(v_tried)].reply # NoReport
          /\ v_tried[Len(v_tried)].reply.errorDetails # "absent") =>
         (v_pc = "raised" /\ v_exc = "Exception")
    /\ v_pc = "returned" =>
         /\ v_ret = v_tried[Len(v_tried)].end
         /\ v_tried[Len(v_tried)].reply.data = "rows"
         /\ v_exc = "none"
         /\ \A i \in 1..Len(v_tried) :
              v_tried[i].end > v_ret => NotAvailable(v_tried[i].reply)
    /\ v_pc # "returned" => v_ret = "none"

\* a walk of several days that ends with a date returned
C21_Witness ==
    /\ v_pc = "returned"
    /\ v_table = "sp_inventory"
    /\ Len(v_tried) = 3
    /\ v_ret = DiscoveryToday - 6
    /\ v_tried[1].reply.data = "empty"
    /\ v_tried[2].reply.reportRequestError = "market"

\* the CSVs of the table the call has taken out of the bucket so far
Gone == {k \in DOMAIN r_start : k \notin DOMAIN r_bucket}

IsTableCsv(k) == under_table(k, "avc", "US", "T") /\ k.folder = "" /\ k.ext = "csv"

\* the run went through report, rotation and upload
PromoSucceeded == p_pc = "returned" /\ p_df # NoContent

\* C29: for the promotion and coupon tables the rotation is given [end_date],
\* a full timestamp, while stored files are keyed by date only: no stored CSV
\* matches, so every CSV of the table, one written earlier the same day
\* included, is listed and rotated to processed/ before the new CSV is
\* written, and after a successful run exactly one CSV of the table is outside
\* processed/, the new one.  Without a report there is no rotation and no
\* upload.
C29_PromoRotatesAll ==
    /\ r_pc # "uncalled" =>
         /\ r_dates = {p_end}
         /\ p_df # NoContent
         /\ \A k \in DOMAIN r_start : IsTableCsv(k) => trailing_date(k) \notin r_dates
    /\ r_pc \in {"loop", "returned", "raised"} =>
         Listed = {k \in DOMAIN r_start : IsTableCsv(k)}
    /\ p_pc \in {"generate", "rotation"} =>
         \A k \in DOMAIN r_bucket : r_bucket[k] # NewFrame
    /\ PromoSucceeded =>
         /\ {k \in DOMAIN r_bucket : IsTableCsv(k)} = {csv_key(<<"start", split_T(p_end)>>)}
         /\ r_bucket[csv_key(<<"start", split_T(p_end)>>)] = p_df
         /\ \A k \in DOMAIN r_start :
              IsTableCsv(k) =>
                /\ processed_key(k) \in DOMAIN r_bucket
                /\ r_bucket[processed_key(k)] = to_parquet(r_start[k])
    /\ p_df = NoContent => (r_pc = "uncalled" /\ r_bucket = r_start)

\* a successful run over a bucket that held a CSV of the same day and one of
\* the day before
C29_Witness ==
    /\ PromoSucceeded
    /\ p_end = "2024-01-02T10:30:00Z"
    /\ S3Key("avc", "US", "T", "", D2, "csv") \in DOMAIN r_start
    /\ S3Key("avc", "US", "T", "", D1, "csv") \in DOMAIN r_start
    /\ S3Key("avc", "US", "T", "processed", D2, "parquet") \in DOMAIN r_bucket
    /\ r_bucket[S3Key("avc", "US", "T", "", D2, "csv")] = NewFrame

\* C25: the Walmart date-range run calls process_report once per date from
\* start_date to end_date inclusive, in ascending order; process_report lets no
\* exception out, so a failure on one date does not keep the later dates from
\* being processed and the run never ends with an exception; with start_date
\* after end_date no date is processed.
C25_EveryDateOnce ==
    /\ \A i \in 1..Len(w_calls) : w_calls[i].date = w_start + (i - 1)
    /\ w_pc = "loop" => Len(w_calls) = w_cur - w_start
    /\ w_pc # "raised" /\ w_exc = "none"
    /\ (w_pc = "returned" /\ w_start <= w_end) =>
         Len(w_calls) = w_end - w_start + 1
    /\ (w_pc = "returned" /\ w_start > w_end) => w_calls = <<>>

\* a run of three dates whose first date failed and whose last succeeded
C25_Witness ==
    /\ w_pc = "returned"
    /\ Len(w_calls) = 3
    /\ w_calls[1].failed = "http"
    /\ w_calls[2].failed = "upload"
    /\ w_calls[3].failed = "none"

\* the dates of the lookback window the bucket had no .csv and no .parquet
\* object for under the table prefix when the run began
MissingDates ==
    {d \in (b_end - b_lookback + 1)..b_end :
        ~\E k \in DOMAIN b_store0 :
            /\ k.source = "avc" /\ k.country = "US" /\ k.table = "T"
            /\ k.ext \in {"csv", "parquet"}
            /\ k.name = <<"T", d>>}

\* the keys the run has written
Written == {k \in DOMAIN b_store : k \notin DOMAIN b_store0 \/ b_store[k] # b_store0[k]}

\* C22: for the general tables a report is generated and a CSV uploaded only
\* for dates of the lookback window that have no .csv or .parquet object under
\* the table prefix; the report of the discovered end date is the one the
\* discovery fetched, not requested again; a CSV is uploaded only if its
\* sorted column names equal csv_column_names, else the run raises and nothing
\* is uploaded for that date.
C22_OnlyMissingDates ==
    /\ \A i \in 1..Len(b_requests) :
         /\ b_requests[i][2] \in MissingDates
         /\ b_requests[i][1] = b_requests[i][2]
         /\ \A j \in 1..Len(b_requests) : b_requests[j] = b_requests[i] => j = i
         /\ b_report # NoFrame => b_requests[i][2] # b_end
    /\ \A k \in DOMAIN b_store0 : k \in DOMAIN b_store
    /\ \A k \in Written :
         /\ IsTableCsv(k)
         /\ trailing_date(k) \in MissingDates
         /\ b_store[k].columns = csv_column_names
         /\ trailing_date(k) = b_end /\ b_report # NoFrame =>
              sorted_columns(b_report) = csv_column_names
         /\ ~(trailing_date(k) = b_end /\ b_report # NoFrame) =>
              \E i \in 1..Len(b_requests) : b_requests[i][2] = trailing_date(k)
    /\ (b_pc \in {"loop", "returned"} /\ b_df # NoFrame) =>
         sorted_columns(b_df) = csv_column_names
    /\ (b_df # NoFrame /\ sorted_columns(b_df) # csv_column_names) =>
         /\ b_pc = "raised"
         /\ b_exc = "Exception"
         /\ csv_key(b_list[b_i + 1]) \notin DOMAIN b_store

\* a run that reused the report of the discovery for the end date, asked for
\* one earlier date and skipped a date the bucket holds as Parquet
C22_Witness ==
    /\ b_pc = "returned"
    /\ b_lookback = 3
    /\ b_report = [kind |-> "frame", columns |-> <<2, 1>>]
    /\ S3Key("avc", "US", "T", "processed", BuilderEndDate - 1, "parquet") \in DOMAIN b_store0
    /\ b_requests = << <<BuilderEndDate - 2, BuilderEndDate - 2>> >>
    /\ csv_key(<<BuilderEndDate, BuilderEndDate>>) \in Written
    /\ csv_key(<<BuilderEndDate - 2, BuilderEndDate - 2>>) \in Written

=============================================================================
